---- MODULE Spec2Model ----
(***************************************************************************)
(* A model of the vibe1337 agent runtime: the plan parser of the           *)
(* LLMOrchestrator, the FileSystemTool and ShellTool of the tool registry  *)
(* and the ExecutionEngine.                                                *)
(*                                                                         *)
(* Texts (model responses, user inputs) are sequences of tokens; a token   *)
(* is a TLA+ string standing for a run of characters that the code never   *)
(* looks inside: a fence, a brace, a quote, a blank, a word.  Shell        *)
(* commands and path strings, which the code searches by substring and by  *)
(* prefix, are sequences of single characters.                             *)
(***************************************************************************)
EXTENDS Integers, Sequences, FiniteSets, TLC

VARIABLES
    llm_response,   \* _parse_execution_plan: the raw model text
    user_input,     \* _parse_execution_plan: the original user input
    plan,           \* the ExecutionPlan returned, NoPlan before the call
    raised,         \* TRUE when the call let an exception reach its caller
    pc,             \* position of the caller: "input", "parsed"
    disk,           \* the file system
    fs_kwargs,      \* FileSystemTool.execute: the arguments of the last call
    fs_value,       \* the value the last call returned
    fs_raised,      \* TRUE when the last call raised
    fs_touched,     \* the paths the last call read or changed
    fs_mutated,     \* TRUE when the last call changed the file system
    fs_calls,       \* the number of calls made
    sh_kwargs,      \* ShellTool.execute: the arguments of the last call
    sh_value,       \* the value the last call returned
    sh_raised,      \* TRUE when the last call raised
    sh_ran,         \* TRUE when the last call reached subprocess.run
    sh_started,     \* the command lines handed to subprocess.run, in order
    sh_calls,       \* the number of calls made
    tools,          \* ToolRegistry.tools: the names registered
    tool_calls,     \* execute_parallel: the list of tool calls
    task_pc,        \* the position of each task: "pending", "awaiting", "done"
    task_result,    \* the value each task returned, JNull before
    completed,      \* the tasks in the order they completed
    execution_history,  \* ExecutionEngine.execution_history
    gathered,       \* the list execute_parallel returned
    par_pc,         \* execute_parallel: "idle", "running", "returned"
    exec_call,      \* ExecutionEngine.execute: the tool call of the last call
    exec_outcome,   \* what execute_tool did in the last call
    exec_value,     \* the value the last call returned
    exec_raised,    \* TRUE when the last call let an exception out
    exec_calls,     \* the number of calls of execute
    retry_call,     \* execute_with_retry: its tool call
    attempt,        \* the loop variable
    retry_pc,       \* "idle", "attempt", "sleeping", "returned"
    sleeps,         \* the seconds of the asyncio.sleep calls, in order
    attempt_values, \* the values execute returned in the attempts
    retry_value,    \* the value execute_with_retry returned
    models,         \* LLMOrchestrator: the provider of each model key
    injected,       \* TRUE when registry, memory and engine are injected
    conversation_history, \* MemorySystem: the items of the history
    memory_file,    \* the history last saved to or loaded from the file
    phase,          \* process: "idle", "planning", "executing",
                    \* "synthesizing", "complete", "error"
    step_no,        \* the number of steps the loop has been through
    results,        \* the list results
    final_response, \* the text of final_response
    returned,       \* the dict process returned, None before
    queries,        \* the calls of _query_llm: model key and prompt
    added,          \* the calls of add_interaction in the turn
    events,         \* process_streaming: the events yielded
    stream_pc,      \* where the generator is suspended
    chunks_left,    \* the chunks of the running query not yet yielded
    buffer,         \* the chunks joined so far
    py_kwargs,      \* PythonExecutorTool.execute: the arguments of the call
    py_run,         \* what the code of the call does when it is executed
    py_pc,          \* "idle", "running", "returned"
    py_elapsed,     \* the seconds exec(code) has been running for
    py_value,       \* the value the call returned, JNull before
    tools_dict,     \* ToolRegistry.tools: the tool stored under each name
    register_calls, \* the tools handed to register_tool, in order
    arena_models,   \* arena_consensus: its argument models
    arena_pc,       \* "idle", "called", "returned"
    arena_queries,  \* the calls of _query_llm it made: key and response
    arena_value,    \* the text arena_consensus returned
    et_call,        \* ToolRegistry.execute_tool: the name, the parameters and
                    \* what the environment does in the last call
    et_before,      \* the file system before the last call
    et_outcome,     \* what the last call did and returned
    et_calls,       \* the number of calls made
    syn_results,    \* _synthesize_response: its argument results
    syn_pc,         \* "idle", "returned"
    syn_value,      \* the text it returned
    agent_pc,       \* VIBE1337Agent.process: "idle", "consuming", "returned"
    seen,           \* the number of events the loop of process has handled
    full_response,  \* the text of full_response
    final_result,   \* final_result: None or the event end
    agent_value,    \* the value process returned, None before
    gateway,        \* what the backend of the model gateway does for a query
    world,          \* what the world outside does for a tool
    began,          \* the Context Store the two turns start from
    first           \* what the turn of process left behind, None before

parser_vars == <<llm_response, user_input, plan, raised, pc>>
fs_vars == <<disk, fs_kwargs, fs_value, fs_raised, fs_touched, fs_mutated, fs_calls>>
sh_vars == <<sh_kwargs, sh_value, sh_raised, sh_ran, sh_started, sh_calls>>
eng_vars ==
    <<tools, tool_calls, task_pc, task_result, completed, execution_history,
      gathered, par_pc>>
exec_vars == <<exec_call, exec_outcome, exec_value, exec_raised, exec_calls>>
retry_vars == <<retry_call, attempt, retry_pc, sleeps, attempt_values, retry_value>>
proc_vars ==
    <<models, injected, conversation_history, memory_file, phase, step_no, results,
      final_response, returned, queries, added>>
stream_vars == <<events, stream_pc, chunks_left, buffer>>
py_vars == <<py_kwargs, py_run, py_pc, py_elapsed, py_value>>
reg_vars == <<tools_dict, register_calls>>
arena_vars == <<arena_models, arena_pc, arena_queries, arena_value>>
et_vars == <<et_call, et_before, et_outcome, et_calls>>
syn_vars == <<syn_results, syn_pc, syn_value>>
agent_vars == <<agent_pc, seen, full_response, final_result, agent_value>>
both_vars == <<gateway, world, began, first>>
late_vars == <<syn_vars, agent_vars, both_vars>>
more_vars == <<py_vars, reg_vars, arena_vars, et_vars, late_vars>>

----------------------------------------------------------------------------
(* Tokens                                                                  *)

\* The token of three backticks, and the one of three backticks and "json"
FENCE == "<fence>"
FENCE_JSON == "<fence>json"
QUOTE == "\""
WS == " "
LBRACE == "{"
RBRACE == "}"
LBRACK == "["
RBRACK == "]"
COLON == ":"
COMMA == ","

Digits == {"0", "1", "2", "3"}

----------------------------------------------------------------------------
(* Python str operations on token sequences                                *)

\* First index i >= from with P(s[i]), or 0 when there is none.
FirstIndexIn(s, toks, from) ==
    IF \E i \in from..Len(s) : s[i] \in toks
    THEN CHOOSE i \in from..Len(s) :
            s[i] \in toks /\ \A j \in from..(i - 1) : s[j] \notin toks
    ELSE 0

LastIndexIn(s, toks) ==
    IF \E i \in 1..Len(s) : s[i] \in toks
    THEN CHOOSE i \in 1..Len(s) :
            s[i] \in toks /\ \A j \in (i + 1)..Len(s) : s[j] \notin toks
    ELSE 0

\* The tokens in which an occurrence of the separator starts: the fence
\* occurs in the json fence as well.
SepTokens(sep) == IF sep = FENCE THEN {FENCE, FENCE_JSON} ELSE {sep}

\* What is left of a token after the separator found in it.
SepResidue(tok, sep) ==
    IF sep = FENCE /\ tok = FENCE_JSON THEN <<"json">> ELSE <<>>

\* sep in text
Contains(text, sep) == FirstIndexIn(text, SepTokens(sep), 1) # 0

\* text.split(sep): the sequence of pieces
RECURSIVE Split(_, _)
SplitAt(text, sep, i) ==
    IF i = 0 THEN <<text>>
    ELSE <<SubSeq(text, 1, i - 1)>>
         \o Split(SepResidue(text[i], sep) \o SubSeq(text, i + 1, Len(text)), sep)

Split(text, sep) == SplitAt(text, sep, FirstIndexIn(text, SepTokens(sep), 1))

\* text.find(tok): 0-based index, -1 when absent
Find(text, tok) == FirstIndexIn(text, {tok}, 1) - 1

\* text.rfind(tok): 0-based index, -1 when absent
RFind(text, tok) == LastIndexIn(text, {tok}) - 1

\* text[start:end] with 0-based start, exclusive end
Slice(text, start, end) == SubSeq(text, start + 1, end)

RECURSIVE LStrip(_)
LStrip(s) == IF s # <<>> /\ Head(s) = WS THEN LStrip(Tail(s)) ELSE s

RECURSIVE RStrip(_)
RStrip(s) ==
    IF s # <<>> /\ s[Len(s)] = WS THEN RStrip(SubSeq(s, 1, Len(s) - 1)) ELSE s

\* s.strip()
Strip(s) == RStrip(LStrip(s))

----------------------------------------------------------------------------
(* JSON values, as json.loads builds them.  One record shape for every     *)
(* kind of value: t is the kind, s the text of a string, a number or a     *)
(* literal, keys/items the members of an object (insertion order, a        *)
(* repeated key kept once with its last value) or the items of a list.     *)

JStr(s) == [t |-> "str", s |-> s, keys |-> <<>>, items |-> <<>>]
JNum(w) == [t |-> "num", s |-> <<w>>, keys |-> <<>>, items |-> <<>>]
JBool(w) == [t |-> "bool", s |-> <<w>>, keys |-> <<>>, items |-> <<>>]
JNull == [t |-> "null", s |-> <<>>, keys |-> <<>>, items |-> <<>>]
JArr(items) == [t |-> "arr", s |-> <<>>, keys |-> <<>>, items |-> items]
JObj(keys, items) == [t |-> "obj", s |-> <<>>, keys |-> keys, items |-> items]

\* A one-word string
S(w) == JStr(<<w>>)

\* d[k] = v on a dict
DictSet(d, k, v) ==
    IF \E i \in 1..Len(d.keys) : d.keys[i] = k
    THEN [d EXCEPT !.items[CHOOSE i \in 1..Len(d.keys) : d.keys[i] = k] = v]
    ELSE [d EXCEPT !.keys = Append(@, k), !.items = Append(@, v)]

\* k in d, for a dict d
HasKey(d, k) == \E i \in 1..Len(d.keys) : d.keys[i] = k

\* d.get(k, default), for a dict d
Get(d, k, default) ==
    IF HasKey(d, k)
    THEN d.items[CHOOSE i \in 1..Len(d.keys) : d.keys[i] = k]
    ELSE default

\* bool(v)
Truthy(v) ==
    CASE v.t = "null" -> FALSE
      [] v.t = "bool" -> v.s = <<"true">>
      [] v.t = "num" -> v.s # <<"0">>
      [] v.t = "str" -> v.s # <<>>
      [] v.t = "arr" -> v.items # <<>>
      [] v.t = "obj" -> v.keys # <<>>

----------------------------------------------------------------------------
(* json.loads                                                              *)

ParseFail == [ok |-> FALSE, val |-> JNull, pos |-> 0]
ParseOk(v, p) == [ok |-> TRUE, val |-> v, pos |-> p]

RECURSIVE SkipWs(_, _)
SkipWs(s, i) == IF i <= Len(s) /\ s[i] = WS THEN SkipWs(s, i + 1) ELSE i

\* A string literal starting at the quote s[i]: its text runs to the next
\* quote, whatever tokens lie between.
StringTo(s, i, j) ==
    IF j = 0 THEN ParseFail
    ELSE ParseOk(JStr(SubSeq(s, i + 1, j - 1)), j + 1)

ParseString(s, i) == StringTo(s, i, FirstIndexIn(s, {QUOTE}, i + 1))

RECURSIVE ParseValue(_, _)
RECURSIVE ParseElements(_, _, _)
RECURSIVE ParseMembers(_, _, _)

\* After a member's value r: "," and the next member, or "}"
MemberEnd(s, k, d) ==
    IF k > Len(s) THEN ParseFail
    ELSE IF s[k] = COMMA THEN ParseMembers(s, k + 1, d)
    ELSE IF s[k] = RBRACE THEN ParseOk(d, k + 1)
    ELSE ParseFail

MemberValue(s, key, r, acc) ==
    IF ~r.ok THEN ParseFail
    ELSE MemberEnd(s, SkipWs(s, r.pos), DictSet(acc, key, r.val))

\* After a member's key: ":" at s[c], then the value
MemberColon(s, key, c, acc) ==
    IF c > Len(s) \/ s[c] # COLON THEN ParseFail
    ELSE MemberValue(s, key, ParseValue(s, c + 1), acc)

MemberKey(s, key, acc) ==
    IF ~key.ok THEN ParseFail
    ELSE MemberColon(s, key.val.s, SkipWs(s, key.pos), acc)

\* A member starts at s[i]: a string key
MemberAt(s, i, acc) ==
    IF i > Len(s) \/ s[i] # QUOTE THEN ParseFail
    ELSE MemberKey(s, ParseString(s, i), acc)

\* The members of an object after "{" or ",": string, ":", value, then ","
\* or "}"; acc is the dict built so far.
ParseMembers(s, i, acc) == MemberAt(s, SkipWs(s, i), acc)

\* After a list item: "," and the next item, or "]"
ElementEnd(s, k, items) ==
    IF k > Len(s) THEN ParseFail
    ELSE IF s[k] = COMMA THEN ParseElements(s, k + 1, items)
    ELSE IF s[k] = RBRACK THEN ParseOk(JArr(items), k + 1)
    ELSE ParseFail

ElementValue(s, r, acc) ==
    IF ~r.ok THEN ParseFail
    ELSE ElementEnd(s, SkipWs(s, r.pos), Append(acc, r.val))

\* The items of a list after "[" or ",": value, then "," or "]"
ParseElements(s, i, acc) == ElementValue(s, ParseValue(s, i), acc)

\* After "{": "}" at s[k], or members
ObjectAt(s, k) ==
    IF k <= Len(s) /\ s[k] = RBRACE THEN ParseOk(JObj(<<>>, <<>>), k + 1)
    ELSE ParseMembers(s, k, JObj(<<>>, <<>>))

\* After "[": "]" at s[k], or items
ArrayAt(s, k) ==
    IF k <= Len(s) /\ s[k] = RBRACK THEN ParseOk(JArr(<<>>), k + 1)
    ELSE ParseElements(s, k, <<>>)

\* The value starting at s[i]
ValueAt(s, i) ==
    IF i > Len(s) THEN ParseFail
    ELSE CASE s[i] = QUOTE -> ParseString(s, i)
           [] s[i] = LBRACE -> ObjectAt(s, SkipWs(s, i + 1))
           [] s[i] = LBRACK -> ArrayAt(s, SkipWs(s, i + 1))
           [] s[i] = "null" -> ParseOk(JNull, i + 1)
           [] s[i] \in {"true", "false"} -> ParseOk(JBool(s[i]), i + 1)
           [] s[i] \in Digits -> ParseOk(JNum(s[i]), i + 1)
           [] OTHER -> ParseFail

\* The value starting at or after s[i], blanks skipped; pos is the index
\* after it.
ParseValue(s, i) == ValueAt(s, SkipWs(s, i))

\* Nothing but blanks may follow the value.
WholeText(s, r) == IF r.ok /\ SkipWs(s, r.pos) > Len(s) THEN r ELSE ParseFail

\* json.loads(s): the value, or a JSONDecodeError (ok = FALSE) when no value
\* starts the text or anything but blanks follows it.
JsonLoads(s) == WholeText(s, ParseValue(s, 1))

\* json.dumps(v), default separators
RECURSIVE Dumps(_)
RECURSIVE DumpsItems(_, _)
RECURSIVE DumpsMembers(_, _)

Dumps(v) ==
    CASE v.t = "str" -> <<QUOTE>> \o v.s \o <<QUOTE>>
      [] v.t \in {"num", "bool"} -> v.s
      [] v.t = "null" -> <<"null">>
      [] v.t = "arr" -> <<LBRACK>> \o DumpsItems(v.items, 1) \o <<RBRACK>>
      [] v.t = "obj" -> <<LBRACE>> \o DumpsMembers(v, 1) \o <<RBRACE>>

DumpsItems(items, i) ==
    IF i > Len(items) THEN <<>>
    ELSE Dumps(items[i])
         \o (IF i < Len(items) THEN <<COMMA, WS>> ELSE <<>>)
         \o DumpsItems(items, i + 1)

DumpsMembers(d, i) ==
    IF i > Len(d.keys) THEN <<>>
    ELSE <<QUOTE>> \o d.keys[i] \o <<QUOTE, COLON, WS>> \o Dumps(d.items[i])
         \o (IF i < Len(d.keys) THEN <<COMMA, WS>> ELSE <<>>)
         \o DumpsMembers(d, i + 1)

----------------------------------------------------------------------------
(* ToolCall, ExecutionStep, ExecutionPlan                                  *)

\* An Optional[ToolCall] is a sequence of no or one ToolCall.
None == <<>>

ToolCall(tool_name, parameters, reasoning) ==
    [tool_name |-> tool_name, parameters |-> parameters,
     reasoning |-> reasoning, confidence |-> JNum("1")]

ExecutionStep(step_id, description, tool_call, dependencies, model, prompt) ==
    [step_id |-> step_id, description |-> description, tool_call |-> tool_call,
     dependencies |-> dependencies, model |-> model, prompt |-> prompt]

\* ExecutionStep.requires_tool
requires_tool(step) == step.tool_call # None

ExecutionPlan(goal, steps, expected_outcome) ==
    [goal |-> goal, steps |-> steps, expected_outcome |-> expected_outcome,
     fallback_strategy |-> JNull]

\* The value of plan before _parse_execution_plan has returned
NoPlan == ExecutionPlan(JNull, <<>>, JNull)

\* str(n) for the step numbers
IntStr(n) == S(<<"0", "1", "2", "3", "4", "5", "6", "7", "8", "9">>[n + 1])

----------------------------------------------------------------------------
(* LLMOrchestrator._parse_execution_plan                                   *)

\* Lines 301-304: from the first "{" to the last "}"
BraceSlice(text, start, end) ==
    IF start >= 0 /\ end > start THEN Slice(text, start, end) ELSE text

\* A variant of ExtractJson that takes the piece before the fence
ExtractJsonPieceBefore(text) ==
    IF Contains(text, FENCE_JSON)
    THEN Split(Split(text, FENCE_JSON)[1], FENCE)[1]
    ELSE IF Contains(text, FENCE)
    THEN Split(Split(text, FENCE)[1], FENCE)[1]
    ELSE IF Contains(text, LBRACE)
    THEN BraceSlice(text, Find(text, LBRACE), RFind(text, RBRACE) + 1)
    ELSE text

\* Lines 292-304: the text handed to json.loads
ExtractJson(text) ==
    IF Contains(text, FENCE_JSON)
    THEN Split(Split(text, FENCE_JSON)[2], FENCE)[1]
    ELSE IF Contains(text, FENCE)
    THEN Split(Split(text, FENCE)[2], FENCE)[1]
    ELSE IF Contains(text, LBRACE)
    THEN BraceSlice(text, Find(text, LBRACE), RFind(text, RBRACE) + 1)
    ELSE text

\* enumerate(v): the values the for loop of line 309 visits, or a TypeError.
\* A list gives its items, a dict its keys, a string its characters.
Iterate(v) ==
    CASE v.t = "arr" -> [raised |-> FALSE, items |-> v.items]
      [] v.t = "obj" ->
            [raised |-> FALSE,
             items |-> [i \in 1..Len(v.keys) |-> JStr(v.keys[i])]]
      [] v.t = "str" ->
            [raised |-> FALSE, items |-> [i \in 1..Len(v.s) |-> S(v.s[i])]]
      [] OTHER -> [raised |-> TRUE, items |-> <<>>]

\* A variant of StepException that looks at dict entries only
StepExceptionOfDicts(step_data) ==
    IF /\ step_data.t = "obj"
       /\ HasKey(step_data, <<"tool_call">>)
       /\ Truthy(Get(step_data, <<"tool_call">>, JNull))
       /\ Get(step_data, <<"tool_call">>, JNull).t # "obj"
    THEN "AttributeError" ELSE "none"

\* Lines 311-325 on one entry of the plan list: the exception building its
\* step raises, or "none".  "tool_call" in step_data is a TypeError on a
\* number, a boolean and None; a list or a string has the in test, but no
\* string subscript and no .get; a tool_call that is truthy must be a dict
\* for tc.get.
StepException(step_data) ==
    CASE step_data.t \in {"num", "bool", "null"} -> "TypeError"
      [] step_data.t = "arr" ->
            IF \E i \in 1..Len(step_data.items) :
                    step_data.items[i] = S("tool_call")
            THEN "TypeError" ELSE "AttributeError"
      [] step_data.t = "str" ->
            IF \E i \in 1..Len(step_data.s) : step_data.s[i] = "tool_call"
            THEN "TypeError" ELSE "AttributeError"
      [] step_data.t = "obj" ->
            IF /\ HasKey(step_data, <<"tool_call">>)
               /\ Truthy(Get(step_data, <<"tool_call">>, JNull))
               /\ Get(step_data, <<"tool_call">>, JNull).t # "obj"
            THEN "AttributeError" ELSE "none"

\* The exception of the first entry that raises, or "none"
RECURSIVE StepsException(_, _)
StepsException(entries, i) ==
    IF i > Len(entries) THEN "none"
    ELSE IF StepException(entries[i]) # "none" THEN StepException(entries[i])
    ELSE StepsException(entries, i + 1)

\* Lines 313-317: the ToolCall of the dict tc
BuildToolCall(tc) ==
    ToolCall(Get(tc, <<"tool_name">>, JStr(<<>>)),
             Get(tc, <<"parameters">>, JObj(<<>>, <<>>)),
             Get(tc, <<"reasoning">>, JStr(<<>>)))

\* Lines 310-325: the ExecutionStep of the dict step_data, the i-th entry
\* (i counted from 0)
BuildStep(step_data, i) ==
    ExecutionStep(
        Get(step_data, <<"step_id">>, IntStr(i + 1)),
        Get(step_data, <<"description">>, S("Execute step")),
        IF /\ HasKey(step_data, <<"tool_call">>)
           /\ Truthy(Get(step_data, <<"tool_call">>, JNull))
        THEN <<BuildToolCall(Get(step_data, <<"tool_call">>, JNull))>>
        ELSE None,
        Get(step_data, <<"dependencies">>, JArr(<<>>)),
        S("primary"),
        Get(step_data, <<"prompt">>, JNull))

\* A variant of StepsOrDirect that returns the steps as built
StepsAsBuilt(steps, input) == steps

\* Lines 330-334: steps if steps else [the direct-response step]
StepsOrDirect(steps, input) ==
    IF steps # <<>> THEN steps
    ELSE <<ExecutionStep(S("1"), S("Respond directly"), None, JArr(<<>>),
                         S("primary"), JStr(input))>>

\* A variant of FallbackPlan without its step
FallbackPlanNoStep(input) ==
    ExecutionPlan(S("Respond to user"), <<>>, S("User question answered"))

\* Lines 341-350: the fallback plan of the except branch
FallbackPlan(input) ==
    ExecutionPlan(S("Respond to user"),
                  <<ExecutionStep(S("1"), S("Direct response"), None,
                                  JArr(<<>>), S("primary"), JStr(input))>>,
                  S("User question answered"))

\* Line 306: the outcome of json.loads(json_str.strip())
Decode(text) == JsonLoads(Strip(ExtractJson(text)))

\* Lines 308-336: the plan built from the dict data and the entries of its
\* plan list, or the exception building a step raises
BuildPlan(data, entries, input) ==
    IF StepsException(entries, 1) # "none"
    THEN [exc |-> StepsException(entries, 1), plan |-> NoPlan]
    ELSE [exc |-> "none",
          plan |-> ExecutionPlan(
              Get(data, <<"goal">>, S("Process user request")),
              StepsOrDirect([i \in 1..Len(entries) |->
                                BuildStep(entries[i], i - 1)], input),
              Get(data, <<"expected_outcome">>, S("User satisfied")))]

\* Line 309: enumerate(data.get("plan", []))
PlanEntries(data, entries, input) ==
    IF entries.raised THEN [exc |-> "TypeError", plan |-> NoPlan]
    ELSE BuildPlan(data, entries.items, input)

\* Lines 306-336 on the outcome of json.loads
FromLoaded(loaded, input) ==
    IF ~loaded.ok THEN [exc |-> "JSONDecodeError", plan |-> NoPlan]
    ELSE IF loaded.val.t # "obj" THEN [exc |-> "AttributeError", plan |-> NoPlan]
    ELSE PlanEntries(loaded.val,
                     Iterate(Get(loaded.val, <<"plan">>, JArr(<<>>))), input)

\* Lines 290-336: the try block: the exception that leaves it ("none" when
\* it returns) and the plan it returns.
TryParse(text, input) == FromLoaded(Decode(text), input)

\* A variant of ExceptCatches: except json.JSONDecodeError
ExceptCatchesDecodeError(exc) == exc = "JSONDecodeError"

\* Line 338, except Exception: the exceptions the handler catches.  The
\* decode error, AttributeError and TypeError all derive from Exception.
ExceptCatches(exc) ==
    exc \in {"JSONDecodeError", "AttributeError", "TypeError"}

\* Lines 338-350: what the caller gets from the outcome r of the try block
Handle(r, input) ==
    IF r.exc = "none" THEN [raised |-> FALSE, plan |-> r.plan]
    ELSE IF ExceptCatches(r.exc)
    THEN [raised |-> FALSE, plan |-> FallbackPlan(input)]
    ELSE [raised |-> TRUE, plan |-> NoPlan]

\* Lines 288-350: the outcome of the call: the plan returned, or raised when
\* an exception reaches the caller.
_parse_execution_plan(text, input) == Handle(TryParse(text, input), input)

----------------------------------------------------------------------------
(* The model texts and user inputs _parse_execution_plan is applied to     *)

\* The longest plan list of a generated model text
MaxSteps == 2

K(w) == <<w>>

\* A step entry with a tool call (the one of test_debug.py)
ToolStepJson(id) ==
    JObj(<<K("step_id"), K("description"), K("tool_call")>>,
         <<S(id), S("List files"),
           JObj(<<K("tool_name"), K("parameters")>>,
                <<S("filesystem"),
                  JObj(<<K("operation"), K("path")>>, <<S("list"), S(".")>>)>>)>>)

\* A step entry with a prompt and a dependency
PromptStepJson(id) ==
    JObj(<<K("step_id"), K("description"), K("dependencies"), K("prompt")>>,
         <<S(id), S("Summarise"), JArr(<<S("1")>>),
           JStr(<<"Summarise", WS, "the", WS, "listing">>)>>)

\* A step entry whose prompt quotes a fenced snippet
FencedPromptStepJson(id) ==
    JObj(<<K("step_id"), K("description"), K("prompt")>>,
         <<S(id), S("Explain"),
           JStr(<<"Explain", WS, FENCE, "ls", FENCE>>)>>)

StepJson(kind, id) ==
    CASE kind = "tool" -> ToolStepJson(id)
      [] kind = "prompt" -> PromptStepJson(id)
      [] kind = "fenced_prompt" -> FencedPromptStepJson(id)

StepKinds == {"tool", "prompt", "fenced_prompt"}

PlanJson(steps) ==
    JObj(<<K("goal"), K("plan"), K("expected_outcome")>>,
         <<JStr(<<"List", WS, "files">>), JArr(steps), S("Files listed")>>)

\* The plan JSON values of the shape the analysis prompt asks for: up to
\* MaxSteps entries, numbered from "1"
WellFormedPlans ==
    { PlanJson([i \in 1..Len(kinds) |-> StepJson(kinds[i], IntStr(i).s[1])]) :
        kinds \in UNION { [1..m -> StepKinds] : m \in 0..MaxSteps } }

\* Values that decode but are no plan of that shape
OddValues ==
    {   \* not an object
        JArr(<<JNum("1")>>), S("x"), JNum("1"), JNull,
        JArr(<<PlanJson(<<ToolStepJson("1")>>)>>),
        \* a plan list with entries that are no objects
        PlanJson(<<JNum("1")>>), PlanJson(<<S("x")>>), PlanJson(<<JNull>>),
        PlanJson(<<S("tool_call")>>), PlanJson(<<JArr(<<>>)>>),
        PlanJson(<<ToolStepJson("1"), JNum("1")>>),
        \* a plan that is no list, or absent
        JObj(<<K("goal"), K("plan")>>, <<S("x"), JObj(<<>>, <<>>)>>),
        JObj(<<K("goal"), K("plan")>>, <<S("x"), PromptStepJson("1")>>),
        JObj(<<K("goal"), K("plan")>>, <<S("x"), JStr(<<>>)>>),
        JObj(<<K("goal"), K("plan")>>, <<S("x"), JNum("1")>>),
        JObj(<<K("plan")>>, <<JNull>>),
        JObj(<<K("plan")>>, <<JArr(<<>>)>>),
        JObj(<<K("goal")>>, <<S("x")>>),
        JObj(<<>>, <<>>),
        \* entries with a tool_call that is no dict, an empty one, no step_id
        PlanJson(<<JObj(<<K("step_id"), K("tool_call")>>,
                        <<S("1"), S("filesystem")>>)>>),
        PlanJson(<<JObj(<<K("step_id"), K("tool_call")>>, <<S("1"), JNull>>)>>),
        PlanJson(<<JObj(<<K("description"), K("tool_call")>>,
                        <<S("List files"), JObj(<<>>, <<>>)>>)>>),
        PlanJson(<<ToolStepJson("1"), PromptStepJson("1")>>) }

\* Texts that hold no JSON value, or a cut or unquoted one
BrokenTexts ==
    { <<>>,
      <<"This", WS, "is", WS, "not", WS, "JSON">>,
      <<LBRACE, "goal", RBRACE>>,
      SubSeq(Dumps(PlanJson(<<ToolStepJson("1")>>)), 1,
             Len(Dumps(PlanJson(<<ToolStepJson("1")>>))) - 1) }

Bodies == { Dumps(v) : v \in WellFormedPlans \cup OddValues } \cup BrokenTexts

\* How the body is wrapped: bare, in a json fence, in an untagged fence
Wrappers == {"bare", "json_fence", "fence"}

Wrap(wrapper, body) ==
    CASE wrapper = "bare" -> body
      [] wrapper = "json_fence" -> <<FENCE_JSON, WS>> \o body \o <<WS, FENCE>>
      [] wrapper = "fence" -> <<FENCE, WS>> \o body \o <<WS, FENCE>>

\* Prose before the body: none, plain, quoting a fenced snippet
ProseBefore ==
    { <<>>,
      <<WS, "Here", WS, "is", WS, "the", WS, "plan", WS>>,
      <<"Run", WS, FENCE, "ls", FENCE, WS, "first", WS>> }

\* Prose after the body
ProseAfter ==
    { <<>>,
      <<WS, "Done", WS>>,
      <<WS, "Then", WS, FENCE, "pwd", FENCE>> }

Text(before, wrapper, body, after) == before \o Wrap(wrapper, body) \o after

Texts ==
    { Text(b, w, body, a) :
        b \in ProseBefore, w \in Wrappers, body \in Bodies, a \in ProseAfter }

UserInputs == { <<"list", WS, "files">>, <<"hi">> }

----------------------------------------------------------------------------
(* Paths.  A path string is a sequence of characters; a path is a sequence *)
(* of names, a name a sequence of characters.  The model has no symbolic   *)
(* links: resolve() only makes the path absolute and removes "..".         *)

SLASH == "/"
DOT == <<".">>
DOTDOT == <<".", ".">>

\* Path(s).is_absolute()
IsAbsolute(s) == s # <<>> /\ s[1] = SLASH

\* Path(s).parts without the root: empty names and "." are dropped
RECURSIVE DropEmpty(_)
DropEmpty(names) ==
    IF names = <<>> THEN <<>>
    ELSE IF Head(names) = <<>> \/ Head(names) = DOT THEN DropEmpty(Tail(names))
    ELSE <<Head(names)>> \o DropEmpty(Tail(names))

PathParts(s) == DropEmpty(Split(s, SLASH))

\* ".." removed against the names before it; the parent of the root is the
\* root.
RECURSIVE Normalize(_, _)
Normalize(names, acc) ==
    IF names = <<>> THEN acc
    ELSE IF Head(names) = DOTDOT
    THEN Normalize(Tail(names),
                   IF acc = <<>> THEN acc ELSE SubSeq(acc, 1, Len(acc) - 1))
    ELSE Normalize(Tail(names), Append(acc, Head(names)))

\* Path(s).resolve() with the working directory cwd
Resolve(s, cwd) ==
    IF IsAbsolute(s) THEN Normalize(PathParts(s), <<>>)
    ELSE Normalize(PathParts(s), cwd)

\* str(path) of an absolute path
RECURSIVE PathStr(_)
PathStr(path) ==
    IF path = <<>> THEN <<SLASH>>
    ELSE IF Len(path) = 1 THEN <<SLASH>> \o path[1]
    ELSE PathStr(SubSeq(path, 1, Len(path) - 1)) \o <<SLASH>> \o path[Len(path)]

\* a.startswith(b)
StartsWith(a, b) == Len(b) <= Len(a) /\ SubSeq(a, 1, Len(b)) = b

\* path.name
PathName(path) == IF path = <<>> THEN <<>> ELSE path[Len(path)]

\* path.parent
Parent(path) == IF path = <<>> THEN path ELSE SubSeq(path, 1, Len(path) - 1)

\* path is p or lies below p
IsWithin(path, p) == Len(p) <= Len(path) /\ SubSeq(path, 1, Len(p)) = p

----------------------------------------------------------------------------
(* The file system: a set of nodes [path, kind, content]; kind is "dir",   *)
(* "file" (text) or "binary"; every node but the root has its parent.      *)

Node(path, kind, content) == [path |-> path, kind |-> kind, content |-> content]

Exists(fs, path) == \E n \in fs : n.path = path
NodeAt(fs, path) == CHOOSE n \in fs : n.path = path
IsDir(fs, path) == Exists(fs, path) /\ NodeAt(fs, path).kind = "dir"
IsFile(fs, path) == Exists(fs, path) /\ NodeAt(fs, path).kind # "dir"

\* The proper ancestors of path and path itself, the root left out
Ancestors(path) == { SubSeq(path, 1, k) : k \in 1..Len(path) }

\* path.mkdir(parents=True, exist_ok=True) raises when path or an ancestor
\* of it is a file.
MkdirRaises(fs, path) == \E a \in Ancestors(path) : IsFile(fs, a)

\* path.mkdir(parents=True, exist_ok=True)
Mkdir(fs, path) ==
    fs \cup { Node(a, "dir", <<>>) : a \in { b \in Ancestors(path) : ~Exists(fs, b) } }

\* open(path, "w").write(content)
WriteFile(fs, path, content) ==
    { n \in fs : n.path # path } \cup { Node(path, "file", content) }

\* path.unlink(), shutil.rmtree(path)
Remove(fs, path) == { n \in fs : ~IsWithin(n.path, path) }

\* The entries of the directory path
Children(fs, path) ==
    { n.path : n \in { m \in fs : Len(m.path) = Len(path) + 1 /\ IsWithin(m.path, path) } }

\* list(...) of a set of paths, as strings, in some order
RECURSIVE PathList(_)
PathList(paths) ==
    IF paths = {} THEN <<>>
    ELSE <<JStr(PathStr(CHOOSE q \in paths : TRUE))>>
         \o PathList(paths \ {CHOOSE q \in paths : TRUE})

----------------------------------------------------------------------------
(* BaseTool.validate_parameters and FileSystemTool.execute.  kwargs is a   *)
(* dict (a JSON object); the outcome of a call is [raised, value, fs,      *)
(* touched]: whether it raised, the value returned (the text of the        *)
(* exception when it raised), the file system after it and the paths it    *)
(* read or changed.                                                        *)

\* The required parameters of the schemas (_build_schema), in their order
RequiredParams(tool) ==
    CASE tool = "filesystem" -> <<K("operation"), K("path")>>
      [] tool = "shell" -> <<K("command")>>
      [] tool = "web_search" -> <<K("query")>>
      [] tool = "python_executor" -> <<K("code")>>

\* validate_parameters raises ValueError when a required parameter is absent
ValidateRaises(tool, kwargs) ==
    \E i \in 1..Len(RequiredParams(tool)) : ~HasKey(kwargs, RequiredParams(tool)[i])

\* str(e) of that ValueError: it names the first absent parameter
MissingMessage(tool, kwargs) ==
    <<"Required parameter '">>
    \o RequiredParams(tool)[CHOOSE i \in 1..Len(RequiredParams(tool)) :
            /\ ~HasKey(kwargs, RequiredParams(tool)[i])
            /\ \A j \in 1..(i - 1) : HasKey(kwargs, RequiredParams(tool)[j])]
    \o <<"' missing">>

ErrorValue(msg) == JObj(<<<<"error">>>>, <<JStr(msg)>>)
SuccessValue(msg) ==
    JObj(<<<<"success">>, <<"message">>>>, <<JBool("true"), JStr(msg)>>)

Outcome(raised_, value, fs, touched) ==
    [raised |-> raised_, value |-> value, fs |-> fs, touched |-> touched]

\* The names that may not be read (line 152)
RestrictedNames ==
    { <<".", "e", "n", "v">>, <<".", "g", "i", "t">>,
      <<"i", "d", "_", "r", "s", "a">>, <<"i", "d", "_", "d", "s", "a">>,
      <<".", "s", "s", "h">> }

AccessDenied == ErrorValue(<<"Access denied: Path outside working directory">>)

\* Lines 148-158
FsRead(fs, path) ==
    IF ~Exists(fs, path)
    THEN Outcome(FALSE, ErrorValue(<<"File not found: ">> \o PathStr(path)), fs, {path})
    ELSE IF PathName(path) \in RestrictedNames
    THEN Outcome(FALSE, ErrorValue(<<"Access to ">> \o PathName(path) \o <<" is restricted">>),
                 fs, {path})
    ELSE IF IsDir(fs, path) THEN Outcome(TRUE, S("IsADirectoryError"), fs, {path})
    ELSE IF NodeAt(fs, path).kind = "binary"
    THEN Outcome(FALSE, ErrorValue(<<"File is not a text file">>), fs, {path})
    ELSE Outcome(FALSE, JObj(<<<<"content">>>>, <<JStr(NodeAt(fs, path).content)>>),
                 fs, {path})

\* Lines 160-165
FsWrite(fs, path, content) ==
    IF MkdirRaises(fs, Parent(path)) THEN Outcome(TRUE, S("FileExistsError"), fs, {path})
    ELSE IF IsDir(fs, path) \/ path = <<>>
    THEN Outcome(TRUE, S("IsADirectoryError"), Mkdir(fs, Parent(path)), {path})
    ELSE Outcome(FALSE, SuccessValue(<<"Written to ">> \o PathStr(path)),
                 WriteFile(Mkdir(fs, Parent(path)), path, content), {path})

\* Lines 167-171
FsList(fs, path) ==
    IF ~Exists(fs, path) /\ path # <<>>
    THEN Outcome(FALSE, ErrorValue(<<"Directory not found: ">> \o PathStr(path)),
                 fs, {path})
    ELSE IF IsFile(fs, path)
    THEN Outcome(FALSE, JObj(<<<<"files">>>>, <<JArr(<<JStr(PathStr(path))>>)>>),
                 fs, {path})
    ELSE Outcome(FALSE, JObj(<<<<"files">>>>, <<JArr(PathList(Children(fs, path)))>>),
                 fs, {path})

\* Lines 173-175
FsCreateDir(fs, path) ==
    IF MkdirRaises(fs, path) THEN Outcome(TRUE, S("FileExistsError"), fs, {path})
    ELSE Outcome(FALSE, SuccessValue(<<"Created directory ">> \o PathStr(path)),
                 Mkdir(fs, path), {path})

\* Lines 177-186
FsDelete(fs, path) ==
    IF Exists(fs, path)
    THEN Outcome(FALSE, SuccessValue(<<"Deleted ">> \o PathStr(path)),
                 Remove(fs, path), {path})
    ELSE Outcome(FALSE, ErrorValue(<<"Path not found: ">> \o PathStr(path)), fs, {path})

\* Lines 148-186: the operation on the resolved path; an operation that is
\* none of the five falls off the end and returns None.
FsOperation(operation, kwargs, fs, path) ==
    CASE operation = S("read") -> FsRead(fs, path)
      [] operation = S("write") ->
            FsWrite(fs, path, Get(kwargs, <<"content">>, JStr(<<>>)).s)
      [] operation = S("list") -> FsList(fs, path)
      [] operation = S("create_dir") -> FsCreateDir(fs, path)
      [] operation = S("delete") -> FsDelete(fs, path)
      [] OTHER -> Outcome(FALSE, JNull, fs, {})

\* Line 139: str(resolved_path).startswith(str(cwd))
PathAllowed(resolved_path, cwd) ==
    StartsWith(PathStr(resolved_path), PathStr(cwd))

\* Lines 128-186, after validate_parameters
FsChecked(kwargs, fs, cwd, resolved_path) ==
    IF ~PathAllowed(resolved_path, cwd) THEN Outcome(FALSE, AccessDenied, fs, {})
    ELSE FsOperation(Get(kwargs, <<"operation">>, JNull), kwargs, fs, resolved_path)

\* Lines 121-186: FileSystemTool.execute(**kwargs) in the working directory
\* cwd
FileSystemTool_execute(kwargs, fs, cwd) ==
    IF ValidateRaises("filesystem", kwargs)
    THEN Outcome(TRUE, JStr(MissingMessage("filesystem", kwargs)), fs, {})
    ELSE FsChecked(kwargs, fs, cwd,
                   Resolve(Get(kwargs, <<"path">>, JNull).s, cwd))

----------------------------------------------------------------------------
(* The working directory, the files and the calls of FileSystemTool        *)

\* Path.cwd().resolve(): /w/a
Cwd == << <<"w">>, <<"a">> >>

\* /w/a holds f, .env, the binary file b and the directory s with s/f;
\* /w/ab is a directory next to /w/a and holds f; /e/p is elsewhere.
InitialFs ==
    { Node(<<>>, "dir", <<>>),
      Node(<< <<"w">> >>, "dir", <<>>),
      Node(Cwd, "dir", <<>>),
      Node(Cwd \o << <<"f">> >>, "file", <<"old">>),
      Node(Cwd \o << <<".", "e", "n", "v">> >>, "file", <<"KEY=1">>),
      Node(Cwd \o << <<"b">> >>, "binary", <<>>),
      Node(Cwd \o << <<"s">> >>, "dir", <<>>),
      Node(Cwd \o << <<"s">>, <<"f">> >>, "file", <<"old">>),
      Node(<< <<"w">>, <<"a", "b">> >>, "dir", <<>>),
      Node(<< <<"w">>, <<"a", "b">>, <<"f">> >>, "file", <<"other">>),
      Node(<< <<"e">> >>, "dir", <<>>),
      Node(<< <<"e">>, <<"p">> >>, "file", <<"root:x">>) }

\* The number of calls of FileSystemTool.execute in a run
MaxFsCalls == 2

FsOperations == {"read", "write", "list", "create_dir", "delete", "move"}

\* The path strings of the calls
FsPaths ==
    { <<".">>,
      <<"f">>,
      <<"b">>,
      <<"s", "/", "f">>,
      <<"s", "/", ".", ".", "/", "n">>,
      <<".", "e", "n", "v">>,
      <<".", ".">>,
      <<".", ".", "/", "a", "b">>,
      <<".", ".", "/", "a", "b", "/", "f">>,
      <<"/", "w", "/", "a", "b", "/", "f">>,
      <<"/", "e", "/", "p">>,
      <<".", ".", "/", ".", ".", "/", "e", "/", "p">>,
      <<"/", "w", "/", "a", "/", "f">>,
      <<"/">> }

FsKwargs ==
    { JObj(<<K("operation"), K("path")>>, <<S(op), JStr(p)>>) :
        op \in FsOperations, p \in FsPaths }
    \cup { JObj(<<K("operation"), K("path"), K("content")>>,
                <<S("write"), JStr(p), S("new")>>) : p \in FsPaths }
    \cup { JObj(<<K("operation")>>, <<S("list")>>),
           JObj(<<K("path")>>, <<S(".")>>) }

----------------------------------------------------------------------------
(* ShellTool.execute.  A command is a sequence of characters.              *)

\* The backquote character
BACKTICK == "<backquote>"

UpperCase ==
    <<"A", "B", "C", "D", "E", "F", "G", "H", "I", "J", "K", "L", "M",
      "N", "O", "P", "Q", "R", "S", "T", "U", "V", "W", "X", "Y", "Z">>
LowerCase ==
    <<"a", "b", "c", "d", "e", "f", "g", "h", "i", "j", "k", "l", "m",
      "n", "o", "p", "q", "r", "s", "t", "u", "v", "w", "x", "y", "z">>

LowerChar(c) ==
    IF \E i \in 1..26 : UpperCase[i] = c
    THEN LowerCase[CHOOSE i \in 1..26 : UpperCase[i] = c]
    ELSE c

\* str.lower()
Lower(s) == [i \in 1..Len(s) |-> LowerChar(s[i])]

\* pattern in text, for strings
InStr(pattern, text) ==
    \E i \in 1..(Len(text) - Len(pattern) + 1) :
        SubSeq(text, i, i + Len(pattern) - 1) = pattern

ShWhitespace == {" ", "\t", "\r", "\n"}

\* shlex.split(command): the words of the command, or ValueError when a
\* quotation is not closed or a backslash ends the text.  state is "none"
\* (between words), "word", "sq", "dq" (inside quotes), "esc" and "dqesc"
\* (after a backslash).
RECURSIVE ShlexScan(_, _, _, _)
ShlexScan(cs, state, cur, parts) ==
    IF cs = <<>>
    THEN CASE state = "none" -> [error |-> FALSE, parts |-> parts]
           [] state = "word" -> [error |-> FALSE, parts |-> Append(parts, cur)]
           [] OTHER -> [error |-> TRUE, parts |-> <<>>]
    ELSE CASE state = "esc" -> ShlexScan(Tail(cs), "word", Append(cur, Head(cs)), parts)
           [] state = "sq" ->
                IF Head(cs) = "'" THEN ShlexScan(Tail(cs), "word", cur, parts)
                ELSE ShlexScan(Tail(cs), "sq", Append(cur, Head(cs)), parts)
           [] state = "dq" ->
                IF Head(cs) = "\"" THEN ShlexScan(Tail(cs), "word", cur, parts)
                ELSE IF Head(cs) = "\\" THEN ShlexScan(Tail(cs), "dqesc", cur, parts)
                ELSE ShlexScan(Tail(cs), "dq", Append(cur, Head(cs)), parts)
           [] state = "dqesc" ->
                IF Head(cs) \in {"\"", "\\"}
                THEN ShlexScan(Tail(cs), "dq", Append(cur, Head(cs)), parts)
                ELSE ShlexScan(Tail(cs), "dq", cur \o <<"\\", Head(cs)>>, parts)
           [] OTHER ->
                IF Head(cs) \in ShWhitespace
                THEN ShlexScan(Tail(cs), "none", <<>>,
                               IF state = "word" THEN Append(parts, cur) ELSE parts)
                ELSE IF Head(cs) = "\\" THEN ShlexScan(Tail(cs), "esc", cur, parts)
                ELSE IF Head(cs) = "'" THEN ShlexScan(Tail(cs), "sq", cur, parts)
                ELSE IF Head(cs) = "\"" THEN ShlexScan(Tail(cs), "dq", cur, parts)
                ELSE ShlexScan(Tail(cs), "word", Append(cur, Head(cs)), parts)

ShlexSplit(command) == ShlexScan(command, "none", <<>>, <<>>)

\* Lines 225-269
allowed_commands ==
    { <<"l", "s">>,
      <<"d", "i", "r">>,
      <<"p", "w", "d">>,
      <<"e", "c", "h", "o">>,
      <<"c", "a", "t">>,
      <<"h", "e", "a", "d">>,
      <<"t", "a", "i", "l">>,
      <<"g", "r", "e", "p">>,
      <<"f", "i", "n", "d">>,
      <<"w", "c">>,
      <<"s", "o", "r", "t">>,
      <<"u", "n", "i", "q">>,
      <<"c", "u", "t">>,
      <<"s", "e", "d">>,
      <<"a", "w", "k">>,
      <<"d", "a", "t", "e">>,
      <<"w", "h", "o", "a", "m", "i">>,
      <<"h", "o", "s", "t", "n", "a", "m", "e">>,
      <<"u", "n", "a", "m", "e">>,
      <<"e", "n", "v">>,
      <<"p", "r", "i", "n", "t", "e", "n", "v">>,
      <<"p", "y", "t", "h", "o", "n">>,
      <<"p", "y", "t", "h", "o", "n", "3">>,
      <<"n", "o", "d", "e">>,
      <<"n", "p", "m">>,
      <<"g", "i", "t">>,
      <<"p", "i", "p">>,
      <<"p", "i", "p", "3">>,
      <<"c", "u", "r", "l">>,
      <<"w", "g", "e", "t">>,
      <<"p", "i", "n", "g">>,
      <<"w", "h", "i", "c", "h">>,
      <<"w", "h", "e", "r", "e", "i", "s">>,
      <<"f", "i", "l", "e">>,
      <<"s", "t", "a", "t">>,
      <<"d", "f">>,
      <<"d", "u">>,
      <<"p", "s">>,
      <<"t", "o", "p">>,
      <<"m", "k", "d", "i", "r">>,
      <<"t", "o", "u", "c", "h">>,
      <<"c", "p">>,
      <<"m", "v">> }
\* Lines 272-297, in the order of the list
dangerous_patterns ==
    << <<"r", "m", " ", "-", "r", "f", " ", "/">>,
       <<"r", "m", " ", "-", "r", "f", " ", ".", "*">>,
       <<"r", "m", " ", "-", "r", " ", "/">>,
       <<"m", "k", "f", "s">>,
       <<"d", "d", " ", "i", "f", "=">>,
       <<":", "(", ")", "{", ":", "|", ":", "&", "}", ";", ":">>,
       <<">", " ", "/", "d", "e", "v", "/", "s", "d", "a">>,
       <<">", " ", "/", "d", "e", "v", "/", "h", "d", "a">>,
       <<"m", "v", " ", "*", " ", "/", "d", "e", "v", "/", "n", "u", "l", "l">>,
       <<"c", "h", "m", "o", "d", " ", "-", "R", " ", "7", "7", "7", " ", "/">>,
       <<"c", "h", "o", "w", "n", " ", "-", "R">>,
       <<"f", "o", "r", "m", "a", "t">>,
       <<"d", "e", "l", " ", "/", "f", " ", "/", "s", " ", "/", "q">>,
       <<"s", "h", "u", "t", "d", "o", "w", "n">>,
       <<"r", "e", "b", "o", "o", "t">>,
       <<"h", "a", "l", "t">>,
       <<"p", "o", "w", "e", "r", "o", "f", "f">>,
       <<"k", "i", "l", "l", " ", "-", "9", " ", "-", "1">>,
       <<"k", "i", "l", "l", "a", "l", "l", " ", "-", "9">>,
       <<"w", "g", "e", "t", " ", "|", " ", "s", "h">>,
       <<"c", "u", "r", "l", " ", "|", " ", "s", "h">>,
       <<"c", "u", "r", "l", " ", "|", " ", "b", "a", "s", "h">>,
       <<"/", "d", "e", "v", "/", "n", "u", "l", "l", " ", ">", "&">>,
       <<"&", " ", "d", "i", "s", "o", "w", "n">> >>
\* The first pattern of the list that the text contains, 0 when none
FirstPattern(text) ==
    IF \E i \in 1..Len(dangerous_patterns) : InStr(dangerous_patterns[i], text)
    THEN CHOOSE i \in 1..Len(dangerous_patterns) :
            /\ InStr(dangerous_patterns[i], text)
            /\ \A j \in 1..(i - 1) : ~InStr(dangerous_patterns[j], text)
    ELSE 0

\* Line 313
HasChaining(command) ==
    InStr(<<"&", "&">>, command) \/ InStr(<<"|", "|">>, command)
        \/ InStr(<<";">>, command)

\* A variant of HasSubstitution that looks for "$(" only
HasSubstitutionDollarOnly(command) == InStr(<<"$", "(">>, command)

\* Line 316
HasSubstitution(command) ==
    InStr(<<BACKTICK>>, command) \/ InStr(<<"$", "(">>, command)

NotAllowedError(base_command) ==
    ErrorValue(<<"Command '">> \o base_command
               \o <<"' not in allowed list. For security, only whitelisted commands can be executed.">>)
BlockedError(pattern) ==
    ErrorValue(<<"Command blocked: contains dangerous pattern '">> \o pattern \o <<"'">>)
ChainingError == ErrorValue(<<"Command chaining (&&, ||, ;) is not allowed for security">>)
SubstitutionError == ErrorValue(<<"Command substitution is not allowed for security">>)

\* A variant of CommandLower that keeps the command as given
CommandAsGiven(command) == command

\* Line 307: command_lower = command.lower()
CommandLower(command) == Lower(command)

\* A variant of ShScreen that checks chaining and substitution before the
\* patterns
ShScreenChainingFirst(command) ==
    IF HasChaining(command) THEN ChainingError
    ELSE IF HasSubstitution(command) THEN SubstitutionError
    ELSE IF FirstPattern(CommandLower(command)) # 0
    THEN BlockedError(dangerous_patterns[FirstPattern(CommandLower(command))])
    ELSE JNull

\* Lines 306-317: the checks after the allow-list, in the order of the code;
\* JNull when the command passes them all.
ShScreen(command) ==
    IF FirstPattern(CommandLower(command)) # 0
    THEN BlockedError(dangerous_patterns[FirstPattern(CommandLower(command))])
    ELSE IF HasChaining(command) THEN ChainingError
    ELSE IF HasSubstitution(command) THEN SubstitutionError
    ELSE JNull

\* Lines 216-304: the checks up to the allow-list on the words split
ShAllow(split) ==
    IF split.error THEN ErrorValue(<<"Invalid command syntax">>)
    ELSE IF split.parts = <<>> THEN ErrorValue(<<"Empty command">>)
    ELSE IF Lower(split.parts[1]) \notin allowed_commands
    THEN NotAllowedError(Lower(split.parts[1]))
    ELSE JNull

\* Lines 216-317: the error the checks return for the command, JNull when
\* the command goes on to subprocess.run.
ShRejection(command) ==
    IF ShAllow(ShlexSplit(command)) # JNull THEN ShAllow(ShlexSplit(command))
    ELSE ShScreen(command)

\* Lines 319-325: what subprocess.run can do with a command
SubprocessOutcomes == {"exit0", "exit1", "timeout", "exception"}

\* Lines 320-325: the value returned after subprocess.run
ShCompleted(outcome, timeout) ==
    CASE outcome = "exit0" ->
            JObj(<<K("stdout"), K("stderr"), K("returncode")>>,
                 <<S("out"), JStr(<<>>), JNum("0")>>)
      [] outcome = "exit1" ->
            JObj(<<K("stdout"), K("stderr"), K("returncode")>>,
                 <<JStr(<<>>), S("err"), JNum("1")>>)
      [] outcome = "timeout" ->
            ErrorValue(<<"Command timed out after ">> \o timeout.s \o <<" seconds">>)
      [] outcome = "exception" -> ErrorValue(<<"exception">>)

\* Lines 204-325: ShellTool.execute(**kwargs); outcome is what subprocess.run
\* does when the call reaches it.  The result is [raised, value, started]:
\* started holds the command line handed to subprocess.run, if any.
ShOutcome(raised_, value, started) ==
    [raised |-> raised_, value |-> value, started |-> started]

ShChecked(command, rejection, kwargs, outcome) ==
    IF rejection # JNull THEN ShOutcome(FALSE, rejection, <<>>)
    ELSE ShOutcome(FALSE,
                   ShCompleted(outcome, Get(kwargs, K("timeout"), JNum("30"))),
                   <<command>>)

ShellTool_execute(kwargs, outcome) ==
    IF ValidateRaises("shell", kwargs)
    THEN ShOutcome(TRUE, JStr(MissingMessage("shell", kwargs)), <<>>)
    ELSE ShChecked(Get(kwargs, K("command"), JNull).s,
                   ShRejection(Get(kwargs, K("command"), JNull).s),
                   kwargs, outcome)

----------------------------------------------------------------------------
(* What the shell runs.  subprocess.run(command, shell=True) hands the     *)
(* command line to the shell, which runs the first word of each of its     *)
(* parts between unquoted control operators.                               *)

ShControl == {"|", "&", ";", "\n"}

\* The parts of a command line between unquoted control operators
RECURSIVE ShSegments(_, _, _, _)
ShSegments(cs, state, cur, segs) ==
    IF cs = <<>> THEN Append(segs, cur)
    ELSE CASE state = "esc" -> ShSegments(Tail(cs), "none", Append(cur, Head(cs)), segs)
           [] state = "sq" ->
                ShSegments(Tail(cs), IF Head(cs) = "'" THEN "none" ELSE "sq",
                           Append(cur, Head(cs)), segs)
           [] state = "dq" ->
                ShSegments(Tail(cs), IF Head(cs) = "\"" THEN "none" ELSE "dq",
                           Append(cur, Head(cs)), segs)
           [] OTHER ->
                IF Head(cs) \in ShControl
                THEN ShSegments(Tail(cs), "none", <<>>, Append(segs, cur))
                ELSE ShSegments(Tail(cs),
                                CASE Head(cs) = "\\" -> "esc"
                                  [] Head(cs) = "'" -> "sq"
                                  [] Head(cs) = "\"" -> "dq"
                                  [] OTHER -> "none",
                                Append(cur, Head(cs)), segs)

\* The programs the shell runs for the command line
Programs(command) ==
    { ShlexSplit(seg).parts[1] :
        seg \in { s \in { ShSegments(command, "none", <<>>, <<>>)[i] :
                            i \in 1..Len(ShSegments(command, "none", <<>>, <<>>)) } :
                    ~ShlexSplit(s).error /\ ShlexSplit(s).parts # <<>> } }

----------------------------------------------------------------------------
(* The calls of ShellTool                                                  *)

\* The number of calls of ShellTool.execute in a run
MaxShCalls == 2

\* The command strings of the calls
ShCommands ==
    { <<"l", "s", " ", "-", "l", "a">>,
      <<"p", "w", "d">>,
      <<"l", "s", " ", "&", "&", " ", "r", "m", " ", "-", "r", "f", " ", "/">>,
      <<"l", "s", " ", "|", "|", " ", "p", "w", "d">>,
      <<"l", "s", ";", " ", "r", "m", " ", "x">>,
      <<"l", "s", ";">>,
      <<"r", "m", " ", "x">>,
      <<"r", "m", " ", "x", " ", "&", "&", " ", "l", "s">>,
      <<"c", "u", "r", "l", " ", "|", " ", "b", "a", "s", "h">>,
      <<"C", "U", "R", "L", " ", "|", " ", "B", "A", "S", "H">>,
      <<"E", "c", "h", "o", " ", "R", "E", "B", "O", "O", "T">>,
      <<"l", "s", " ", "|", " ", "r", "m", " ", "x">>,
      <<"l", "s", " ", "&", " ", "r", "m", " ", "x">>,
      <<"l", "s", "\n", "r", "m", " ", "x">>,
      <<"c", "a", "t", " ", "f", " ", "|", " ", "w", "c">>,
      <<"e", "c", "h", "o", " ", BACKTICK, "i", "d", BACKTICK>>,
      <<"e", "c", "h", "o", " ", "$", "(", "i", "d", ")">>,
      <<"r", "m", " ", "$", "(", "i", "d", ")">>,
      <<"'", "l", "s">>,
      <<"e", "c", "h", "o", " ", "\"", "a">>,
      <<"l", "s", " ", "\\">>,
      <<>>,
      <<" ", " ">>,
      <<"L", "S">>,
      <<"'", "l", "s", "'", " ", "-", "l", "a">>,
      <<"e", "c", "h", "o", " ", "'", "a", ";", "b", "'">>,
      <<"c", "a", "t", " ", "i", "n", "f", "o", "r", "m", "a", "t", "i", "o", "n">>,
      <<"e", "c", "h", "o", " ", "c", "h", "o", "w", "n", " ", "-", "R", " ", "x">>,
      <<"e", "c", "h", "o", " ", "x", " ", ">", " ", "/", "d", "e", "v", "/", "s", "d", "a">>,
      <<"w", "g", "e", "t", " ", "|", " ", "s", "h">>,
      <<"l", "s", " ", "&", "&", " ", "p", "w", "d">>,
      <<"l", "s", " ", ";", " ", "r", "m", " ", "x">> }

ShKwargs ==
    { JObj(<<K("command")>>, <<JStr(c)>>) : c \in ShCommands }
    \cup { JObj(<<K("command"), K("timeout")>>, <<JStr(<<"p", "w", "d">>), JNum("5")>>),
           JObj(<<K("timeout")>>, <<JNum("5")>>) }

----------------------------------------------------------------------------
(* The tools without a model of their own.  WebSearchTool and              *)
(* PythonExecutorTool do not call validate_parameters; outcome is what the *)
(* search or the executed code does.                                       *)

\* The outcome of a tool call: whether it raised, the value returned (the
\* text of the exception when it raised), the file system after it and the
\* command lines it handed to subprocess.run.
ToolOutcome(raised_, value, fs, started) ==
    [raised |-> raised_, value |-> value, fs |-> fs, started |-> started]

\* WebSearchTool.execute
WebSearchTool_execute(kwargs, outcome) ==
    IF outcome = "no_module" THEN ErrorValue(<<"duckduckgo-search not installed">>)
    ELSE IF ~HasKey(kwargs, K("query")) THEN ErrorValue(<<"'query'">>)
    ELSE IF outcome = "exception" THEN ErrorValue(<<"exception">>)
    ELSE JObj(<<K("results")>>, <<JArr(<<Get(kwargs, K("query"), JNull)>>)>>)

\* PythonExecutorTool.execute: [raised, value]
PythonExecutorTool_execute(kwargs, outcome) ==
    IF ~HasKey(kwargs, K("code")) THEN [raised |-> TRUE, value |-> S("'code'")]
    ELSE IF outcome = "exception"
    THEN [raised |-> FALSE,
          value |-> JObj(<<K("success"), K("error"), K("stdout"), K("stderr")>>,
                         <<JBool("false"), S("exception"), JStr(<<>>), JStr(<<>>)>>)]
    ELSE [raised |-> FALSE,
          value |-> JObj(<<K("success"), K("stdout"), K("stderr")>>,
                         <<JBool("true"), S("out"), JStr(<<>>)>>)]

\* A registered tool whose execute awaits: it returns its parameters or
\* raises.
RemoteTool_execute(kwargs, outcome) ==
    IF outcome = "exception" THEN [raised |-> TRUE, value |-> S("exception")]
    ELSE [raised |-> FALSE, value |-> JObj(<<K("echo")>>, <<kwargs>>)]

----------------------------------------------------------------------------
(* ToolRegistry                                                            *)

\* _initialize_default_tools: the names of the tools registered
DefaultTools == {S("filesystem"), S("shell"), S("web_search"), S("python_executor")}

\* The tool whose execute awaits, registered with register_tool
RemoteTool == S("remote")

\* The execute of this tool suspends before it returns
Awaits(tool_name) == tool_name = RemoteTool

\* What the environment of a tool can do during a call
OutcomesOf(tool_name) ==
    CASE tool_name = S("shell") -> SubprocessOutcomes
      [] tool_name = S("web_search") -> {"ok", "no_module", "exception"}
      [] tool_name = S("python_executor") -> {"ok", "exception"}
      [] tool_name = RemoteTool -> {"ok", "exception"}
      [] OTHER -> {"ok"}

FromFs(r) == ToolOutcome(r.raised, r.value, r.fs, <<>>)
FromSh(r, fs) == ToolOutcome(r.raised, r.value, fs, r.started)
FromValue(r, fs) == ToolOutcome(r.raised, r.value, fs, <<>>)

\* tool.execute(**parameters) of the tool registered as tool_name
ToolRun(tool_name, parameters, fs, outcome) ==
    CASE tool_name = S("filesystem") ->
            FromFs(FileSystemTool_execute(parameters, fs, Cwd))
      [] tool_name = S("shell") -> FromSh(ShellTool_execute(parameters, outcome), fs)
      [] tool_name = S("web_search") ->
            ToolOutcome(FALSE, WebSearchTool_execute(parameters, outcome), fs, <<>>)
      [] tool_name = S("python_executor") ->
            FromValue(PythonExecutorTool_execute(parameters, outcome), fs)
      [] OTHER -> FromValue(RemoteTool_execute(parameters, outcome), fs)

\* Lines 483-487: an exception of the tool becomes an error value
CaughtByRegistry(r) ==
    IF r.raised THEN [r EXCEPT !.raised = FALSE, !.value = ErrorValue(r.value.s)]
    ELSE r

\* hash(tool_name) raises TypeError for a list or a dict
Hashable(v) == v.t \notin {"arr", "obj"}

\* ToolRegistry.execute_tool(tool_name, parameters) with the tools registered
execute_tool(registered, tool_name, parameters, fs, outcome) ==
    IF ~Hashable(tool_name) THEN ToolOutcome(TRUE, S("unhashable type"), fs, <<>>)
    ELSE IF tool_name \notin registered
    THEN ToolOutcome(FALSE,
                     ErrorValue(<<"Tool '">> \o tool_name.s \o <<"' not found">>),
                     fs, <<>>)
    ELSE IF parameters.t # "obj"
    THEN ToolOutcome(FALSE, ErrorValue(<<"argument after ** must be a mapping">>),
                     fs, <<>>)
    ELSE IF HasKey(parameters, K("self"))
    THEN ToolOutcome(FALSE,
                     ErrorValue(<<"execute() got multiple values for argument 'self'">>),
                     fs, <<>>)
    ELSE CaughtByRegistry(ToolRun(tool_name, parameters, fs, outcome))

\* Lines 109-118, 196-201, 335-344, 371-380: the parameters the schema of a
\* default tool names
SchemaParams(tool_name) ==
    CASE tool_name = S("filesystem") -> {K("operation"), K("path"), K("content")}
      [] tool_name = S("shell") -> {K("command"), K("timeout")}
      [] tool_name = S("web_search") -> {K("query"), K("max_results")}
      [] tool_name = S("python_executor") -> {K("code"), K("timeout")}
      [] OTHER -> {}

\* What tool.execute(**kwargs) of a default tool does besides returning:
\* FileSystemTool goes to the file system once validate_parameters passed
\* (line 134), ShellTool starts a subprocess (line 320), WebSearchTool asks
\* the search service once the module is imported and the query read (lines
\* 355-356), PythonExecutorTool hands the code to exec once it read it
\* (line 426)
ToolEffects(tool_name, kwargs, outcome) ==
    CASE tool_name = S("filesystem") ->
            IF ValidateRaises("filesystem", kwargs) THEN {} ELSE {"filesystem"}
      [] tool_name = S("shell") ->
            IF ShellTool_execute(kwargs, outcome).started # <<>> THEN {"subprocess"}
            ELSE {}
      [] tool_name = S("web_search") ->
            IF outcome # "no_module" /\ HasKey(kwargs, K("query")) THEN {"network"}
            ELSE {}
      [] tool_name = S("python_executor") ->
            IF HasKey(kwargs, K("code")) THEN {"exec"} ELSE {}
      [] OTHER -> {}

\* The same for ToolRegistry.execute_tool: the tool is reached when it is
\* registered and the parameters can be passed as keyword arguments
Effects(tools_, tool_name, parameters, outcome) ==
    IF /\ Hashable(tool_name)
       /\ tool_name \in tools_
       /\ parameters.t = "obj"
       /\ ~HasKey(parameters, K("self"))
    THEN ToolEffects(tool_name, parameters, outcome)
    ELSE {}

----------------------------------------------------------------------------
(* ExecutionEngine                                                         *)

\* time.time() - start_time
ExecutionTime == S("elapsed")

\* The dataclass ExecutionResult
ExecutionResult(success, output, tool_name, parameters) ==
    [success |-> success, output |-> output, error |-> JNull,
     execution_time |-> ExecutionTime, tool_name |-> tool_name,
     parameters |-> parameters]

\* A variant of Succeeded for which only a dict without error is a success
SucceededDictOnly(result) == result.t = "obj" /\ ~HasKey(result, K("error"))

\* Line 59: not isinstance(result, dict) or "error" not in result
Succeeded(result) == result.t # "obj" \/ ~HasKey(result, K("error"))

PyBool(b) == IF b THEN JBool("true") ELSE JBool("false")

\* Lines 69-74 and 80-85: the value execute returns for the outcome r of
\* execute_tool
ExecuteValue(tool_call, r) ==
    IF r.raised
    THEN JObj(<<K("success"), K("error"), K("tool"), K("execution_time")>>,
              <<JBool("false"), r.value, tool_call.tool_name, ExecutionTime>>)
    ELSE JObj(<<K("success"), K("output"), K("execution_time"), K("tool")>>,
              <<PyBool(Succeeded(r.value)), r.value, ExecutionTime, tool_call.tool_name>>)

\* Line 67: the history after execute; nothing is appended on the except
\* path
HistoryAfter(history, tool_call, r) ==
    IF r.raised THEN history
    ELSE Append(history,
                ExecutionResult(Succeeded(r.value), r.value,
                                tool_call.tool_name, tool_call.parameters))

\* A variant of Gather that lists the results in the order of completion
GatherAsCompleted(values, order) == [k \in 1..Len(order) |-> values[order[k]]]

\* Line 90: asyncio.gather(*tasks) returns the results of the tasks in the
\* order of its arguments, whatever the order they completed in
Gather(values, order) == [i \in 1..Len(values) |-> values[i]]

----------------------------------------------------------------------------
(* The calls of ExecutionEngine.execute_parallel                           *)

\* The number of tool calls handed to execute_parallel
MaxParallel == 3

Params(keys, values) == JObj(keys, values)

EngToolCalls ==
    { ToolCall(S("filesystem"), Params(<<K("operation"), K("path")>>, <<S("read"), S("f")>>), JStr(<<>>)),
      ToolCall(S("filesystem"),
               Params(<<K("operation"), K("path"), K("content")>>, <<S("write"), S("f"), S("new")>>),
               JStr(<<>>)),
      ToolCall(S("filesystem"), Params(<<K("operation")>>, <<S("list")>>), JStr(<<>>)),
      ToolCall(S("shell"), Params(<<K("command")>>, <<JStr(<<"p", "w", "d">>)>>), JStr(<<>>)),
      ToolCall(S("python_executor"), Params(<<K("code")>>, <<S("print(1)")>>), JStr(<<>>)),
      ToolCall(S("web_search"), Params(<<K("query")>>, <<S("tla")>>), JStr(<<>>)),
      ToolCall(S("nope"), Params(<<>>, <<>>), JStr(<<>>)),
      ToolCall(JArr(<<S("shell")>>), Params(<<>>, <<>>), JStr(<<>>)),
      ToolCall(RemoteTool, Params(<<K("q")>>, <<S("a")>>), JStr(<<>>)),
      ToolCall(RemoteTool, Params(<<K("q")>>, <<S("b")>>), JStr(<<>>)) }

EngCallLists == UNION { [1..n -> EngToolCalls] : n \in 0..MaxParallel }

----------------------------------------------------------------------------
(* ExecutionEngine.execute and execute_with_retry                          *)

\* A variant of EngineCatches that catches nothing
EngineCatchesNothing(r) == FALSE

\* Line 76: except Exception catches what execute_tool raised
EngineCatches(r) == r.raised

\* An exception leaves ExecutionEngine.execute
ExecutePropagates(r) == r.raised /\ ~EngineCatches(r)

\* Line 39
max_retries == 3

RECURSIVE Pow2(_)
Pow2(n) == IF n = 0 THEN 1 ELSE 2 * Pow2(n - 1)

\* A variant of Backoff that waits one second each time
BackoffFixed(attempt_) == 1

\* Line 103: asyncio.sleep(2 ** attempt)
Backoff(attempt_) == Pow2(attempt_)

\* A variant of Successful for which no result is a success
NeverSuccessful(value) == FALSE

\* Line 97: result.get("success")
Successful(value) == Truthy(Get(value, K("success"), JNull))

----------------------------------------------------------------------------
(* The calls of ExecutionEngine.execute                                    *)

\* The number of calls of ExecutionEngine.execute in a run
MaxExecCalls == 2

ExecToolCalls ==
    EngToolCalls \cup
    { ToolCall(S("filesystem"),
               Params(<<K("operation"), K("path")>>,
                      <<S("read"), JStr(<<"/", "e", "/", "p">>)>>), JStr(<<>>)),
      ToolCall(S("filesystem"),
               Params(<<K("operation"), K("path")>>,
                      <<S("read"), JStr(<<".", "e", "n", "v">>)>>), JStr(<<>>)),
      ToolCall(S("filesystem"), Params(<<K("operation"), K("path")>>, <<S("read"), S("s")>>),
               JStr(<<>>)),
      ToolCall(S("filesystem"), Params(<<K("operation"), K("path")>>, <<S("move"), S("f")>>),
               JStr(<<>>)),
      ToolCall(S("filesystem"),
               Params(<<K("operation"), K("path")>>, <<JNull, JStr(<<"s", "/", "f">>)>>),
               JStr(<<>>)),
      ToolCall(S("shell"), Params(<<K("command")>>, <<JStr(<<"r", "m", " ", "x">>)>>),
               JStr(<<>>)),
      ToolCall(S("shell"), Params(<<>>, <<>>), JStr(<<>>)),
      ToolCall(S("python_executor"), Params(<<>>, <<>>), JStr(<<>>)),
      ToolCall(S("web_search"), Params(<<>>, <<>>), JStr(<<>>)),
      ToolCall(S("shell"), S("pwd"), JStr(<<>>)),
      ToolCall(S("filesystem"), JNull, JStr(<<>>)),
      ToolCall(JStr(<<>>), Params(<<>>, <<>>), JStr(<<>>)),
      ToolCall(JNull, Params(<<>>, <<>>), JStr(<<>>)),
      ToolCall(JObj(<<K("name")>>, <<S("shell")>>), Params(<<>>, <<>>), JStr(<<>>)) }

----------------------------------------------------------------------------
(* MemorySystem: the conversation history is a sequence of MemoryItems,    *)
(* each a record of its type and its content                               *)

MemoryItem(type, content) == [type |-> type, content |-> content]

\* Line 65: the history is saved when its length is a multiple of this
SaveEvery == 10

\* conversation_history[-5:]
Recent(history) ==
    SubSeq(history, IF Len(history) > 5 THEN Len(history) - 4 ELSE 1, Len(history))

\* Lines 91-95 on one item of the history: the AttributeError of content.get or of
\* user_msg.lower(), or "none"
ItemException(item) ==
    IF item.type # S("conversation") THEN "none"
    ELSE IF item.content.t # "obj" THEN "no attribute 'get'"
    ELSE IF Get(item.content, K("user"), JStr(<<>>)).t # "str"
    THEN "no attribute 'lower'"
    ELSE "none"

\* get_context(): the exception _summarize_conversation raises, or "none"
RECURSIVE ItemsException(_, _)
ItemsException(items, i) ==
    IF i > Len(items) THEN "none"
    ELSE IF ItemException(items[i]) # "none" THEN ItemException(items[i])
    ELSE ItemsException(items, i + 1)

get_context(history) == ItemsException(Recent(history), 1)

\* Lines 55-63: add_interaction appends the item
add_interaction(history, input, response) ==
    Append(history,
           MemoryItem(S("conversation"),
                      JObj(<<K("user"), K("assistant")>>, <<JStr(input), JStr(response)>>)))

\* Lines 64-66: the file after add_interaction gave the history h
SavedAfter(file, h) == IF Len(h) % SaveEvery = 0 THEN h ELSE file

----------------------------------------------------------------------------
(* LLMOrchestrator: the analysis prompt and the model gateway              *)

NL == "\n"

\* The order in which _initialize_default_tools registers the tools
RegistrationOrder ==
    <<S("filesystem"), S("shell"), S("web_search"), S("python_executor")>>

\* get_schemas(): the names of the registered tools, in registration order
RECURSIVE Registered(_, _)
Registered(names, i) ==
    IF i > Len(RegistrationOrder) THEN <<>>
    ELSE (IF RegistrationOrder[i] \in names THEN <<RegistrationOrder[i]>> ELSE <<>>)
         \o Registered(names, i + 1)

\* The description of the schema of a tool
Description(tool_name) ==
    CASE tool_name = S("filesystem") ->
            "Perform file system operations like reading, writing, listing files"
      [] tool_name = S("shell") -> "Execute shell commands"
      [] tool_name = S("web_search") -> "Search the web for information"
      [] tool_name = S("python_executor") -> "Execute Python code and return the result"
      [] OTHER -> "Remote tool"

\* Line 261: one line for each of the first five schemas, joined by "\n"
RECURSIVE ToolsSummary(_, _)
ToolsSummary(names, i) ==
    IF i > Len(names) \/ i > 5 THEN <<>>
    ELSE <<"- ", names[i].s[1], ": ", Description(names[i])>>
         \o (IF i < Len(names) /\ i < 5 THEN <<NL>> ELSE <<>>)
         \o ToolsSummary(names, i + 1)

\* Lines 263-286: the text around the request and the tools.  The sample
\* plan of lines 270-286 is one token.
_create_analysis_prompt(input, names) ==
    <<"Analyze this request and create a plan.", NL, NL, "User Request: ">>
    \o input
    \o <<NL, NL, "Available Tools:", NL>>
    \o ToolsSummary(names, 1)
    \o <<NL, NL, "Respond with a JSON plan: <sample>", NL, NL,
         "If no tools needed, omit tool_call. Keep it simple.">>

\* word in token.lower(), for the words "list" and "file" the mock looks for
TokenHas(token, word) ==
    CASE word = "list" ->
            token \in {"list", "List", "list files in current directory",
                       "Perform file system operations like reading, writing, listing files"}
      [] word = "file" ->
            token \in {"file", "files", "File", "list files in current directory",
                       "filesystem",
                       "Perform file system operations like reading, writing, listing files"}

\* word in prompt.lower()
InLower(word, prompt) == \E i \in 1..Len(prompt) : TokenHas(prompt[i], word)

\* Lines 407-418
MockListPlan ==
    JObj(<<K("goal"), K("plan"), K("expected_outcome")>>,
         <<JStr(<<"List", WS, "files">>),
           JArr(<<JObj(<<K("step_id"), K("description"), K("tool_call")>>,
                       <<S("1"), S("List files in directory"),
                         JObj(<<K("tool_name"), K("parameters")>>,
                              <<S("filesystem"),
                                JObj(<<K("operation"), K("path")>>,
                                     <<S("list"), S(".")>>)>>)>>)>>),
           S("Files listed")>>)

\* Lines 420-428
MockDirectPlan(prompt) ==
    JObj(<<K("goal"), K("plan"), K("expected_outcome")>>,
         <<S("Respond"),
           JArr(<<JObj(<<K("step_id"), K("description"), K("prompt")>>,
                       <<S("1"), S("Direct response"), JStr(prompt)>>)>>),
           S("Response provided")>>)

\* A variant of _mock_response without the list-files branch
MockAlwaysDirect(prompt) == Dumps(MockDirectPlan(prompt))

\* Lines 404-428
_mock_response(prompt) ==
    IF InLower("list", prompt) /\ InLower("file", prompt)
    THEN Dumps(MockListPlan)
    ELSE Dumps(MockDirectPlan(prompt))

\* What the model gateway returns, or the exception it raises
Answer(raised_, text) == [raised |-> raised_, text |-> text]

\* What the subprocess of _query_ollama_fixed can do: it prints output and
\* exits with 0, it fails with the text of stderr, it exceeds the 30 s, or
\* subprocess.run raises
Ran(kind, text) == [kind |-> kind, text |-> text]

\* Lines 430-473: never raises; f.write(prompt) of a prompt that is no str
\* is a TypeError the except branch turns to text
_query_ollama_fixed(prompt, ran) ==
    IF prompt.t # "str"
    THEN Answer(FALSE, <<"Error: ", "write() argument must be str">>)
    ELSE CASE ran.kind = "stdout" /\ ran.text # <<>> -> Answer(FALSE, Strip(ran.text))
           [] ran.kind = "stdout" /\ ran.text = <<>> ->
                 Answer(FALSE, <<"Ollama error: ", "No response">>)
           [] ran.kind = "failed" ->
                 Answer(FALSE, <<"Ollama error: ">>
                               \o (IF ran.text # <<>> THEN ran.text ELSE <<"No response">>))
           [] ran.kind = "timeout" -> Answer(FALSE, <<"Ollama query timed out (30s limit)">>)
           [] OTHER -> Answer(FALSE, <<"Error: ">> \o ran.text)

\* Line 393: self.models.get(model_key, self.models.get("primary"))
ProviderOf(registry, model_key) ==
    IF model_key \in DOMAIN registry THEN registry[model_key] ELSE registry[S("primary")]

\* Lines 395-402 for the provider
QueryProvider(provider, prompt, ran) ==
    CASE provider = "mock" ->
            IF prompt.t # "str" THEN Answer(TRUE, <<"no attribute 'lower'">>)
            ELSE Answer(FALSE, _mock_response(prompt.s))
      [] provider = "ollama" -> _query_ollama_fixed(prompt, ran)
      [] provider = "openai" ->
            Answer(FALSE, <<"OpenAI not implemented in this debug version">>)
      [] OTHER -> Answer(FALSE, <<"Model provider not implemented">>)

\* Lines 388-402: _query_llm(model_key, prompt); a key that cannot be
\* hashed is a TypeError of dict.get
_query_llm(registry, model_key, prompt, ran) ==
    IF ~Hashable(model_key) THEN Answer(TRUE, <<"unhashable type">>)
    ELSE QueryProvider(ProviderOf(registry, model_key), prompt, ran)

----------------------------------------------------------------------------
(* LLMOrchestrator._synthesize_response                                    *)

RECURSIVE Indent(_)
Indent(level) == IF level = 0 THEN <<>> ELSE <<"  ">> \o Indent(level - 1)

\* json.dumps(v, indent=2)
RECURSIVE DumpsIndent(_, _)
RECURSIVE IndentItems(_, _, _)
RECURSIVE IndentMembers(_, _, _)

DumpsIndent(v, level) ==
    CASE v.t = "arr" /\ v.items # <<>> ->
            <<LBRACK, NL>> \o IndentItems(v.items, 1, level + 1)
            \o <<NL>> \o Indent(level) \o <<RBRACK>>
      [] v.t = "obj" /\ v.keys # <<>> ->
            <<LBRACE, NL>> \o IndentMembers(v, 1, level + 1)
            \o <<NL>> \o Indent(level) \o <<RBRACE>>
      [] OTHER -> Dumps(v)

IndentItems(items, i, level) ==
    IF i > Len(items) THEN <<>>
    ELSE Indent(level) \o DumpsIndent(items[i], level)
         \o (IF i < Len(items) THEN <<COMMA, NL>> ELSE <<>>)
         \o IndentItems(items, i + 1, level)

IndentMembers(d, i, level) ==
    IF i > Len(d.keys) THEN <<>>
    ELSE Indent(level) \o <<QUOTE>> \o d.keys[i] \o <<QUOTE, COLON, WS>>
         \o DumpsIndent(d.items[i], level)
         \o (IF i < Len(d.keys) THEN <<COMMA, NL>> ELSE <<>>)
         \o IndentMembers(d, i + 1, level)

\* repr(v): a str in single quotes, None, True and False, and the items of
\* a list or a dict separated by ", "
RECURSIVE PyRepr(_)
RECURSIVE ReprItems(_, _)
RECURSIVE ReprMembers(_, _)

PyRepr(v) ==
    CASE v.t = "str" -> <<"'">> \o v.s \o <<"'">>
      [] v.t = "num" -> v.s
      [] v.t = "bool" -> IF v.s = <<"true">> THEN <<"True">> ELSE <<"False">>
      [] v.t = "null" -> <<"None">>
      [] v.t = "arr" -> <<LBRACK>> \o ReprItems(v.items, 1) \o <<RBRACK>>
      [] v.t = "obj" -> <<LBRACE>> \o ReprMembers(v, 1) \o <<RBRACE>>

ReprItems(items, i) ==
    IF i > Len(items) THEN <<>>
    ELSE PyRepr(items[i])
         \o (IF i < Len(items) THEN <<COMMA, WS>> ELSE <<>>)
         \o ReprItems(items, i + 1)

ReprMembers(d, i) ==
    IF i > Len(d.keys) THEN <<>>
    ELSE <<"'">> \o d.keys[i] \o <<"'", COLON, WS>> \o PyRepr(d.items[i])
         \o (IF i < Len(d.keys) THEN <<COMMA, WS>> ELSE <<>>)
         \o ReprMembers(d, i + 1)

\* str(v): the text of a str, else repr(v)
PyStr(v) == IF v.t = "str" THEN v.s ELSE PyRepr(v)

\* Lines 365-371: the only result
SynthesizeOne(result) ==
    IF HasKey(result, K("response")) THEN Get(result, K("response"), JNull).s
    ELSE IF HasKey(result, K("output"))
    THEN DumpsIndent(Get(result, K("output"), JNull), 0)
    ELSE DumpsIndent(result, 0)

\* A variant of ResponsePart that counts the results from 0
ResponsePartZeroBased(result, i) ==
    IF result.t # "obj" THEN PyStr(result)
    ELSE IF HasKey(result, K("response")) THEN Get(result, K("response"), JNull).s
    ELSE IF HasKey(result, K("output"))
    THEN <<"Step ", IntStr(i - 1).s[1], ": ">> \o Dumps(Get(result, K("output"), JNull))
    ELSE <<"Step ", IntStr(i - 1).s[1], ": ">> \o Dumps(result)

\* Lines 375-384: the part of the i-th result; a result that is no dict
\* gives str(result)
ResponsePart(result, i) ==
    IF result.t # "obj" THEN PyStr(result)
    ELSE IF HasKey(result, K("response")) THEN Get(result, K("response"), JNull).s
    ELSE IF HasKey(result, K("output"))
    THEN <<"Step ", IntStr(i).s[1], ": ">> \o Dumps(Get(result, K("output"), JNull))
    ELSE <<"Step ", IntStr(i).s[1], ": ">> \o Dumps(result)

\* Line 386: "\n".join(response_parts)
RECURSIVE JoinParts(_, _)
JoinParts(results_, i) ==
    IF i > Len(results_) THEN <<>>
    ELSE ResponsePart(results_[i], i)
         \o (IF i < Len(results_) THEN <<NL>> ELSE <<>>)
         \o JoinParts(results_, i + 1)

\* Lines 359-386
_synthesize_response(results_) ==
    IF results_ = <<>> THEN <<"I processed your request but got no results.">>
    ELSE IF Len(results_) = 1 /\ results_[1].t = "obj" THEN SynthesizeOne(results_[1])
    ELSE JoinParts(results_, 1)

\* Lines 234-237
FinalResponse(results_) ==
    IF results_ # <<>> THEN _synthesize_response(results_)
    ELSE <<"I understand your request. How can I help you further?">>

----------------------------------------------------------------------------
(* LLMOrchestrator.process: the values it returns                          *)

Timestamp == "now"

\* Lines 243-248
Completed(response, plan_, results_) ==
    [response |-> response, plan |-> plan_, execution_results |-> results_,
     timestamp |-> Timestamp]

\* A variant of Failed that returns the text of the exception alone
FailedBare(e) == [response |-> e, error |-> e, timestamp |-> Timestamp]

\* Lines 252-256: e is the text of the exception
Failed(e) ==
    [response |-> <<"I encountered an error: ">> \o e
                  \o <<". Let me try a different approach.">>,
     error |-> e, timestamp |-> Timestamp]

\* A variant of PromptOf that hands the prompt of the step on as it is
PromptAsGiven(step, input) == step.prompt

\* Line 230: step.model or "primary", step.prompt or user_input
ModelOf(step) == IF Truthy(step.model) THEN step.model ELSE S("primary")
PromptOf(step, input) == IF Truthy(step.prompt) THEN step.prompt ELSE JStr(input)

\* Line 231
ResponseResult(text) == JObj(<<K("response")>>, <<JStr(text)>>)

\* Line 357
NoEngineResult == JObj(<<K("error")>>, <<S("No execution engine available")>>)

----------------------------------------------------------------------------
(* The turns LLMOrchestrator.process is applied to                         *)

\* self.models: mock when no model is found, else the provider found
ModelRegistries ==
    { [k \in {S("primary"), S("mock:test")} |-> "mock"],
      [k \in {S("primary"), S("ollama:m")} |-> "ollama"],
      [k \in {S("primary"), S("openai:gpt-4")} |-> "openai"],
      [k \in {S("primary"), S("anthropic:claude")} |-> "anthropic"] }

ProcessInputs == { <<"list files in current directory">>, <<"hi">> }

Interaction(input, response) ==
    MemoryItem(S("conversation"),
               JObj(<<K("user"), K("assistant")>>, <<JStr(input), JStr(response)>>))

\* The histories load_memory can give: none, one whose content is no
\* dict, and nine interactions
LoadedHistories ==
    { <<>>,
      <<MemoryItem(S("conversation"), S("hello"))>>,
      [i \in 1..(SaveEvery - 1) |-> Interaction(<<"hi">>, <<"answer">>)] }

ToolCallJson(tool_name, keys, values) ==
    JObj(<<K("tool_name"), K("parameters")>>, <<tool_name, JObj(keys, values)>>)

ToolEntry(id, tool_call) ==
    JObj(<<K("step_id"), K("description"), K("tool_call")>>,
         <<S(id), S("Use a tool"), tool_call>>)

PlanOf(entries) ==
    JObj(<<K("goal"), K("plan"), K("expected_outcome")>>,
         <<S("Do it"), JArr(entries), S("Done")>>)

\* The plans a model answers with
ModelPlans ==
    { MockListPlan,
      PlanOf(<<ToolEntry("1", ToolCallJson(S("nope"), <<>>, <<>>)),
               ToolEntry("2", ToolCallJson(S("shell"), <<K("command")>>,
                                           <<JStr(<<"p", "w", "d">>)>>))>>),
      PlanOf(<<JObj(<<K("step_id"), K("description"), K("dependencies"), K("tool_call")>>,
                    <<S("1"), S("Read"), JArr(<<S("2")>>),
                      ToolCallJson(S("filesystem"), <<K("operation")>>, <<S("read")>>)>>),
               JObj(<<K("step_id"), K("description"), K("prompt")>>,
                    <<S("2"), S("Say"), S("say hi")>>)>>),
      PlanOf(<<ToolEntry("1", ToolCallJson(S("shell"), <<K("command")>>,
                                           <<JStr(<<"r", "m", " ", "x">>)>>)),
               ToolEntry("2", ToolCallJson(S("filesystem"), <<K("operation"), K("path")>>,
                                           <<S("read"), JStr(<<"/", "e", "/", "p">>)>>))>>),
      PlanOf(<<JObj(<<K("step_id"), K("description"), K("tool_call"), K("prompt")>>,
                    <<S("1"), S("Search"),
                      ToolCallJson(S("web_search"), <<K("query")>>, <<S("tla")>>),
                      S("say hi")>>)>>),
      PlanOf(<<>>),
      PlanOf(<<JObj(<<K("step_id"), K("description")>>, <<S("1"), S("Think")>>),
               JObj(<<K("step_id"), K("description"), K("prompt")>>,
                    <<S("2"), S("Say"), JStr(<<>>)>>)>>),
      PlanOf(<<ToolEntry("1", ToolCallJson(JArr(<<S("shell")>>), <<>>, <<>>))>>),
      PlanOf(<<ToolEntry("1", ToolCallJson(S("python_executor"), <<K("code")>>,
                                           <<S("print(1)")>>)),
               ToolEntry("2", ToolCallJson(S("filesystem"),
                                           <<K("operation"), K("path"), K("content")>>,
                                           <<S("write"), S("f"), S("new")>>))>>) }

\* What the subprocess does for the plan query
PlanRans ==
    { Ran("stdout", Dumps(p)) : p \in ModelPlans }
    \cup { Ran("stdout", <<"hello">>), Ran("stdout", <<>>),
           Ran("failed", <<"not found">>), Ran("failed", <<>>),
           Ran("timeout", <<>>), Ran("exception", <<"boom">>) }

\* What the subprocess does for the query of a step
StepRans == { Ran("stdout", <<"answer">>), Ran("failed", <<>>), Ran("timeout", <<>>) }

----------------------------------------------------------------------------
(* AgentService.process_streaming: events and chunks                       *)

\* An event: the dict the generator yields, without its timestamp.  The
\* entries an event of a type does not have are left at their defaults.
Event(type, content) ==
    [type |-> type, content |-> content, steps |-> 0, step |-> 0, total_steps |-> 0,
     tool_name |-> JNull, parameters |-> JNull, result |-> JNull, plan |-> NoPlan,
     results |-> <<>>, error |-> <<>>]

\* Lines 119-128
PlanReadyEvent(plan_) ==
    [Event("plan_ready", <<"Plan created with ", IntStr(Len(plan_.steps)).s[1], " steps">>)
        EXCEPT !.steps = Len(plan_.steps)]

\* A variant of StepStartEvent that counts the steps from 0
StepStartZeroBased(plan_, i) ==
    [Event("step_start", <<"Step ", IntStr(i - 1).s[1], "/", IntStr(Len(plan_.steps)).s[1]>>)
        EXCEPT !.step = i - 1, !.total_steps = Len(plan_.steps)]

\* Lines 133-139
StepStartEvent(plan_, i) ==
    [Event("step_start", <<"Step ", IntStr(i).s[1], "/", IntStr(Len(plan_.steps)).s[1]>>)
        EXCEPT !.step = i, !.total_steps = Len(plan_.steps)]

\* Lines 143-149
ToolExecutionEvent(tool_call) ==
    [Event("tool_execution", <<"Executing tool">>)
        EXCEPT !.tool_name = tool_call.tool_name, !.parameters = tool_call.parameters]

\* Lines 154-159
ToolResultEvent(result) ==
    [Event("tool_result", <<"Tool execution completed">>) EXCEPT !.result = result]

\* A variant of EndEvent without the results of the steps
EndEventNoResults(response, plan_, results_) ==
    [Event("end", response) EXCEPT !.plan = plan_]

\* Lines 194-200
EndEvent(response, plan_, results_) ==
    [Event("end", response) EXCEPT !.plan = plan_, !.results = results_]

\* Lines 204-209
ErrorEvent(e) == [Event("error", <<"Error: ">> \o e) EXCEPT !.error = e]

\* Lines 232-237: the providers _query_llm_streaming streams from
Streams(provider) == provider \in {"openai", "anthropic"}

\* Lines 269-273 and 294-298: the chunks for a missing library and for an
\* exception of the client
LibraryMissing(provider) ==
    IF provider = "openai" THEN <<"OpenAI library not installed.">>
    ELSE <<"Anthropic library not installed.">>

ClientError(provider) ==
    IF provider = "openai" THEN <<"OpenAI error: ", "boom">>
    ELSE <<"Anthropic error: ", "boom">>

\* The two pieces of a text
FirstPiece(text) == SubSeq(text, 1, Len(text) \div 2)
SecondPiece(text) == SubSeq(text, Len(text) \div 2 + 1, Len(text))

\* Lines 243-298: the chunk sequences a streaming client can give for a
\* model that answers with one of the texts: the text in one chunk or in
\* two, an exception of the client after the first piece or at once, no
\* chunk at all, and the missing library
ClientStreams(provider, texts) ==
    { <<t>> : t \in texts }
    \cup { <<FirstPiece(t), SecondPiece(t)>> : t \in { u \in texts : Len(u) > 1 } }
    \cup { <<FirstPiece(t), ClientError(provider)>> : t \in { u \in texts : Len(u) > 1 } }
    \cup { <<>>, <<ClientError(provider)>>, <<LibraryMissing(provider)>> }

\* Lines 211-241: what _query_llm_streaming yields: the chunks of the client
\* of a streaming provider, else the one text _query_llm returns; raised
\* when _query_llm raises
Chunked(raised_, chunks) == [raised |-> raised_, chunks |-> chunks]

\* Lines 238-241: the response of _query_llm as one chunk; an exception of
\* _query_llm goes through the generator
OneChunk(answer) ==
    IF answer.raised THEN Chunked(TRUE, <<answer.text>>)
    ELSE Chunked(FALSE, <<answer.text>>)

\* The texts a model answers the plan query and the query of a step with
PlanAnswers == { Dumps(p) : p \in ModelPlans } \cup { <<"hello">> }
StepAnswers == { <<"ans", "wer">> }

_query_llm_streaming(registry, model_key, prompt, texts, rans) ==
    IF ~Hashable(model_key) THEN { Chunked(TRUE, <<<<"unhashable type">>>>) }
    ELSE IF Streams(ProviderOf(registry, model_key))
    THEN { Chunked(FALSE, c) : c \in ClientStreams(ProviderOf(registry, model_key), texts) }
    ELSE { OneChunk(_query_llm(registry, model_key, prompt, ran)) : ran \in rans }

----------------------------------------------------------------------------
(* PythonExecutorTool.execute as a run: the call reads its arguments and   *)
(* hands the code to exec, which runs for some seconds and then returns,   *)
(* raises, or goes on for ever.  One second is one step.                   *)

\* Line 378: the default of the timeout parameter of the schema
DefaultPyTimeout == 10

\* The seconds a timeout argument asks for
Seconds(v) ==
    CASE v = JNum("1") -> 1
      [] v = JNum("2") -> 2
      [] OTHER -> DefaultPyTimeout

\* Lines 373-379: the timeout of a call, the default when it gives none
RequestedTimeout(kwargs) ==
    IF HasKey(kwargs, K("timeout")) THEN Seconds(Get(kwargs, K("timeout"), JNull))
    ELSE DefaultPyTimeout

\* The seconds the clock of a run is followed for
MaxSeconds == 12

\* What exec(code) does: how it ends and after how many seconds
PyRun(ends, after) == [ends |-> ends, after |-> after]

\* Line 426: what the code of a call does under exec
RunsOf(code) ==
    CASE code = S("print(1)") -> { PyRun("returns", 0) }
      [] code = S("1/0") -> { PyRun("raises", 0) }
      [] code = S("while True: pass") -> { PyRun("never", 0) }
      [] code = S("sum(range(n))") ->
            { PyRun("returns", n) : n \in 1..MaxSeconds }
            \cup { PyRun("raises", n) : n \in 1..MaxSeconds }
      [] OTHER -> { PyRun("raises", 0) }

\* The arguments of the calls of PythonExecutorTool.execute
PyCodes == { S("print(1)"), S("1/0"), S("while True: pass"), S("sum(range(n))") }
PyTimeouts == { JNum("1"), JNum("2") }
PyKwargs ==
    { Params(<<K("code")>>, <<c>>) : c \in PyCodes }
    \cup { Params(<<K("code"), K("timeout")>>, <<c, t>>) : c \in PyCodes, t \in PyTimeouts }
    \cup { Params(<<>>, <<>>), Params(<<K("timeout")>>, <<JNum("1")>>) }

----------------------------------------------------------------------------
(* ToolRegistry.register_tool                                              *)

\* A tool object: the name of its schema and which object it is
Tool(name, id) == [name |-> name, id |-> id]

\* A variant of register_tool that keeps the tool a name already has
RegisterKeepsFirst(reg, tool) ==
    [n \in DOMAIN reg \cup {tool.name} |->
        IF n \in DOMAIN reg THEN reg[n] ELSE tool]

\* Line 462: self.tools[tool.schema.name] = tool
register_tool(reg, tool) ==
    [n \in DOMAIN reg \cup {tool.name} |->
        IF n = tool.name THEN tool ELSE reg[n]]

\* Lines 450-455: the tool objects of _initialize_default_tools
DefaultRegistered == [i \in 1..Len(RegistrationOrder) |-> Tool(RegistrationOrder[i], 0)]

\* Lines 457-458: register_tool for each of them, on the empty dict
RECURSIVE RegisterAll(_, _, _)
RegisterAll(reg, objects, i) ==
    IF i > Len(objects) THEN reg
    ELSE RegisterAll(register_tool(reg, objects[i]), objects, i + 1)

\* Lines 444-446: the registry after __init__
DefaultRegistry == RegisterAll(<<>>, DefaultRegistered, 1)

\* The number of calls of register_tool after __init__
MaxRegister == 3

\* The tool objects handed to register_tool: two objects for each name,
\* for the names of two default tools and two others
ToolObjects ==
    { Tool(n, id) : n \in {S("filesystem"), S("shell"), RemoteTool, S("x")},
                    id \in {1, 2} }

----------------------------------------------------------------------------
(* The calls of ToolRegistry.execute_tool on the default tools             *)

\* The number of calls of execute_tool in a run
MaxToolCalls == 2

\* Parameters named in the schemas, some of the required ones absent
SchemaKwargs(tool_name) ==
    CASE tool_name = S("filesystem") ->
            { Params(<<>>, <<>>),
              Params(<<K("operation")>>, <<S("read")>>),
              Params(<<K("path")>>, <<S("f")>>),
              Params(<<K("content")>>, <<S("new")>>),
              Params(<<K("operation"), K("path")>>, <<S("read"), S("f")>>),
              Params(<<K("operation"), K("path"), K("content")>>,
                     <<S("write"), S("f"), S("new")>>) }
      [] tool_name = S("shell") ->
            { Params(<<>>, <<>>),
              Params(<<K("timeout")>>, <<JNum("3")>>),
              Params(<<K("command")>>, <<JStr(<<"p", "w", "d">>)>>),
              Params(<<K("command")>>, <<JStr(<<"r", "m", " ", "x">>)>>) }
      [] tool_name = S("web_search") ->
            { Params(<<>>, <<>>),
              Params(<<K("max_results")>>, <<JNum("2")>>),
              Params(<<K("query")>>, <<S("tla")>>) }
      [] tool_name = S("python_executor") ->
            { Params(<<>>, <<>>),
              Params(<<K("timeout")>>, <<JNum("1")>>),
              Params(<<K("code")>>, <<S("print(1)")>>) }

\* The parameters no schema names that a call may carry besides
ExtraKeys == { <<>>, <<K("zzz")>>, <<K("self")>> }

\* kwargs with a parameter more for each of the keys
WithExtras(kwargs, keys) ==
    JObj(kwargs.keys \o keys, kwargs.items \o [i \in 1..Len(keys) |-> JNum("1")])

----------------------------------------------------------------------------
(* LLMOrchestrator._initialize_models and arena_consensus                  *)

\* Lines 84-132: the keys of self.models in the order they are inserted:
\* the Ollama models as ollama list names them, the cloud models, the mock
\* model, and "primary" last
KeyOrder ==
    <<S("ollama:llama3"), S("ollama:qwen2.5:7b"), S("ollama:phi3"), S("ollama:gemma"),
      S("openai:gpt-4"), S("anthropic:claude"), S("mock:test"), S("primary")>>

\* Lines 90-120: the provider of a model key
ProviderFor(key) ==
    CASE key \in {KeyOrder[1], KeyOrder[2], KeyOrder[3], KeyOrder[4]} -> "ollama"
      [] key = S("openai:gpt-4") -> "openai"
      [] key = S("anthropic:claude") -> "anthropic"
      [] OTHER -> "mock"

\* list(d.keys()): the keys among these in the order of insertion
RECURSIVE KeysIn(_, _)
KeysIn(keys, i) ==
    IF i > Len(KeyOrder) THEN <<>>
    ELSE (IF KeyOrder[i] \in keys THEN <<KeyOrder[i]>> ELSE <<>>) \o KeysIn(keys, i + 1)

\* Lines 123-130
PrimaryKey(keys) ==
    IF S("ollama:qwen2.5:7b") \in keys THEN S("ollama:qwen2.5:7b")
    ELSE IF S("ollama:mistral:7b-instruct-q4_K_M") \in keys
    THEN S("ollama:mistral:7b-instruct-q4_K_M")
    ELSE IF keys # {} THEN KeysIn(keys, 1)[1]
    ELSE S("mock:test")

\* Lines 113-132 for the models found, the mock model when there is none
WithPrimary(keys) ==
    [k \in keys \cup {S("primary")} |->
        IF k = S("primary") THEN ProviderFor(PrimaryKey(keys)) ELSE ProviderFor(k)]

\* Lines 82-134: self.models when these models were found
_initialize_models(found) ==
    IF found = {} THEN WithPrimary({S("mock:test")}) ELSE WithPrimary(found)

\* The registries _initialize_models builds: some Ollama models, with or
\* without each of the two API keys
ArenaRegistries ==
    { _initialize_models({KeyOrder[i] : i \in 1..n} \cup cloud) :
        n \in 0..4, cloud \in SUBSET {S("openai:gpt-4"), S("anthropic:claude")} }

\* xs[:n]
Take(xs, n) == IF Len(xs) <= n THEN xs ELSE SubSeq(xs, 1, n)

NotAlias(key) == key # S("primary") /\ key # S("mock:test")

\* Line 483: the keys other than "primary" and "mock:test", three at most
DefaultArenaModels(registry) ==
    Take(SelectSeq(KeysIn(DOMAIN registry, 1), NotAlias), 3)

\* Lines 482-483: the list given, the default when it is None or empty
ArenaModels(registry, given) ==
    IF given = <<>> THEN DefaultArenaModels(registry) ELSE given

\* "\n---\n".join(responses)
RECURSIVE JoinResponses(_, _)
JoinResponses(responses, i) ==
    IF i > Len(responses) THEN <<>>
    ELSE responses[i]
         \o (IF i < Len(responses) THEN <<NL, "---", NL>> ELSE <<>>)
         \o JoinResponses(responses, i + 1)

\* Line 494
Consensus(n, responses) ==
    <<"Consensus from ", IntStr(n).s[1], " models:", NL>> \o JoinResponses(responses, 1)

\* The model lists arena_consensus is called with; None is the empty list
ArenaArguments ==
    { <<>>,
      <<S("ollama:llama3")>>,
      <<S("ollama:llama3"), S("openai:gpt-4")>>,
      <<S("primary"), S("ollama:llama3")>>,
      <<S("nope"), S("other")>>,
      <<S("ollama:llama3"), S("ollama:qwen2.5:7b"), S("ollama:phi3"), S("ollama:gemma")>> }

\* What the subprocess of _query_ollama_fixed does for a query of the arena
ArenaRans == { Ran("stdout", <<"answer">>), Ran("failed", <<>>) }

----------------------------------------------------------------------------
(* VIBE1337Agent.process in streaming mode: the loop over the events       *)

\* A variant of Collected that joins the contents of the planning_chunks too
CollectedWithPlanning(text, event) ==
    IF event.type \in {"chunk", "planning_chunk"} THEN text \o event.content
    ELSE IF event.type = "end" /\ text = <<>> THEN event.content
    ELSE text

\* Lines 116-125 of vibe1337.py: full_response after the event
Collected(text, event) ==
    IF event.type = "chunk" THEN text \o event.content
    ELSE IF event.type = "end" /\ text = <<>> THEN event.content
    ELSE text

\* Lines 121-122: final_result after the event
FinalResult(result, event) == IF event.type = "end" THEN event ELSE result

\* Line 129: final_result or {"response": full_response}
AgentValue(result, text) == IF result # None THEN result ELSE [response |-> text]

----------------------------------------------------------------------------
(* The results lists _synthesize_response is applied to                    *)

\* The longest results list
MaxResults == 2

\* The results of a step: the answer of a model, the value execute returns
\* for a success and for a failure, the result without an engine, and
\* entries that are no dicts
SynEntries ==
    { ResponseResult(<<"ans", "wer">>),
      ResponseResult(<<"line", NL, "two">>),
      JObj(<<K("success"), K("output"), K("execution_time"), K("tool")>>,
           <<JBool("true"), JObj(<<K("files")>>, <<JArr(<<S("a"), S("b")>>)>>),
             ExecutionTime, S("filesystem")>>),
      JObj(<<K("success"), K("error"), K("tool"), K("execution_time")>>,
           <<JBool("false"), S("Tool nope not found"), S("nope"), ExecutionTime>>),
      NoEngineResult,
      S("raw"),
      JArr(<<S("a"), JNull>>) }

SynResultLists == UNION { [1..n -> SynEntries] : n \in 0..MaxResults }

----------------------------------------------------------------------------
(* Specifications: one per component; the variables of the other           *)
(* components keep their initial values.                                   *)

vars ==
    <<parser_vars, fs_vars, sh_vars, eng_vars, exec_vars, retry_vars, proc_vars,
      stream_vars, more_vars>>

\* The variables of the other components
beside_parser ==
    <<fs_vars, sh_vars, eng_vars, exec_vars, retry_vars, proc_vars, stream_vars,
      more_vars>>
beside_fs ==
    <<parser_vars, sh_vars, eng_vars, exec_vars, retry_vars, proc_vars, stream_vars,
      more_vars>>
beside_sh ==
    <<parser_vars, fs_vars, eng_vars, exec_vars, retry_vars, proc_vars, stream_vars,
      more_vars>>
beside_eng ==
    <<parser_vars, fs_vars, sh_vars, exec_vars, retry_vars, proc_vars, stream_vars,
      more_vars>>
beside_py ==
    <<parser_vars, fs_vars, sh_vars, eng_vars, exec_vars, retry_vars, proc_vars,
      stream_vars, reg_vars, arena_vars, et_vars, late_vars>>
beside_reg ==
    <<parser_vars, fs_vars, sh_vars, eng_vars, exec_vars, retry_vars, proc_vars,
      stream_vars, py_vars, arena_vars, et_vars, late_vars>>
beside_arena ==
    <<parser_vars, fs_vars, sh_vars, eng_vars, exec_vars, retry_vars, proc_vars,
      stream_vars, py_vars, reg_vars, et_vars, late_vars>>

ParserIdle ==
    /\ llm_response = <<>>
    /\ user_input = <<>>
    /\ plan = NoPlan
    /\ raised = FALSE
    /\ pc = "idle"

FsIdle ==
    /\ disk = InitialFs
    /\ fs_kwargs = JNull
    /\ fs_value = JNull
    /\ fs_raised = FALSE
    /\ fs_touched = {}
    /\ fs_mutated = FALSE
    /\ fs_calls = 0

ShIdle ==
    /\ sh_kwargs = JNull
    /\ sh_value = JNull
    /\ sh_raised = FALSE
    /\ sh_ran = FALSE
    /\ sh_started = <<>>
    /\ sh_calls = 0

EngIdle ==
    /\ tools = DefaultTools
    /\ tool_calls = <<>>
    /\ task_pc = <<>>
    /\ task_result = <<>>
    /\ completed = <<>>
    /\ execution_history = <<>>
    /\ gathered = <<>>
    /\ par_pc = "idle"

ExecIdle ==
    /\ exec_call = None
    /\ exec_outcome = None
    /\ exec_value = JNull
    /\ exec_raised = FALSE
    /\ exec_calls = 0

\* No turn of process has begun
TurnIdle ==
    /\ injected = TRUE
    /\ conversation_history = <<>>
    /\ memory_file = <<>>
    /\ phase = "idle"
    /\ step_no = 0
    /\ results = <<>>
    /\ final_response = <<>>
    /\ returned = None
    /\ queries = <<>>
    /\ added = <<>>

ProcessIdle ==
    /\ models = [k \in {S("primary"), S("mock:test")} |-> "mock"]
    /\ TurnIdle

StreamIdle ==
    /\ events = <<>>
    /\ stream_pc = "idle"
    /\ chunks_left = <<>>
    /\ buffer = <<>>

RetryIdle ==
    /\ retry_call = None
    /\ attempt = 0
    /\ retry_pc = "idle"
    /\ sleeps = <<>>
    /\ attempt_values = <<>>
    /\ retry_value = JNull

PyIdle ==
    /\ py_kwargs = JNull
    /\ py_run = None
    /\ py_pc = "idle"
    /\ py_elapsed = 0
    /\ py_value = JNull

RegIdle ==
    /\ tools_dict = DefaultRegistry
    /\ register_calls = DefaultRegistered

ArenaIdle ==
    /\ arena_models = None
    /\ arena_pc = "idle"
    /\ arena_queries = <<>>
    /\ arena_value = <<>>

EtIdle ==
    /\ et_call = None
    /\ et_before = InitialFs
    /\ et_outcome = None
    /\ et_calls = 0

SynIdle ==
    /\ syn_results = <<>>
    /\ syn_pc = "idle"
    /\ syn_value = <<>>

AgentIdle ==
    /\ agent_pc = "idle"
    /\ seen = 0
    /\ full_response = <<>>
    /\ final_result = None
    /\ agent_value = None

BothIdle ==
    /\ gateway = None
    /\ world = None
    /\ began = <<>>
    /\ first = None

LateIdle == SynIdle /\ AgentIdle /\ BothIdle

MoreIdle == PyIdle /\ RegIdle /\ ArenaIdle /\ EtIdle /\ LateIdle

----------------------------------------------------------------------------
(* The caller of _parse_execution_plan                                     *)

InitParse ==
    /\ llm_response \in Texts
    /\ user_input \in UserInputs
    /\ plan = NoPlan
    /\ raised = FALSE
    /\ pc = "input"
    /\ FsIdle /\ ShIdle /\ EngIdle /\ ExecIdle /\ RetryIdle
    /\ ProcessIdle /\ StreamIdle /\ MoreIdle

\* The caller receives the outcome r of the call.
Returned(r) == plan' = r.plan /\ raised' = r.raised

\* plan = self._parse_execution_plan(analysis, user_input)
Parse ==
    /\ pc = "input"
    /\ Returned(_parse_execution_plan(llm_response, user_input))
    /\ pc' = "parsed"
    /\ UNCHANGED <<llm_response, user_input, beside_parser>>

NextParse == Parse

SpecParse == InitParse /\ [][NextParse]_vars

----------------------------------------------------------------------------
(* The callers of FileSystemTool.execute                                   *)

InitFS ==
    /\ ParserIdle /\ FsIdle /\ ShIdle /\ EngIdle /\ ExecIdle /\ RetryIdle
    /\ ProcessIdle /\ StreamIdle /\ MoreIdle

\* The caller receives the outcome r of the call.
FsReturned(r) ==
    /\ disk' = r.fs
    /\ fs_value' = r.value
    /\ fs_raised' = r.raised
    /\ fs_touched' = r.touched
    /\ fs_mutated' = (r.fs # disk)

\* result = await tool.execute(**kwargs)
FsExecute ==
    /\ fs_calls < MaxFsCalls
    /\ fs_calls' = fs_calls + 1
    /\ \E kwargs \in FsKwargs :
          /\ fs_kwargs' = kwargs
          /\ FsReturned(FileSystemTool_execute(kwargs, disk, Cwd))
    /\ UNCHANGED beside_fs

NextFS == FsExecute

SpecFS == InitFS /\ [][NextFS]_vars

----------------------------------------------------------------------------
(* The callers of ShellTool.execute                                        *)

InitShell ==
    /\ ParserIdle /\ FsIdle /\ ShIdle /\ EngIdle /\ ExecIdle /\ RetryIdle
    /\ ProcessIdle /\ StreamIdle /\ MoreIdle

\* The caller receives the outcome r of the call.
ShReturned(r) ==
    /\ sh_value' = r.value
    /\ sh_raised' = r.raised
    /\ sh_ran' = (r.started # <<>>)
    /\ sh_started' = sh_started \o r.started

\* result = await tool.execute(**kwargs), subprocess.run ending one of its
\* ways when the call reaches it
ShExecute ==
    /\ sh_calls < MaxShCalls
    /\ sh_calls' = sh_calls + 1
    /\ \E kwargs \in ShKwargs, outcome \in SubprocessOutcomes :
          /\ sh_kwargs' = kwargs
          /\ ShReturned(ShellTool_execute(kwargs, outcome))
    /\ UNCHANGED beside_sh

NextShell == ShExecute

SpecShell == InitShell /\ [][NextShell]_vars

----------------------------------------------------------------------------
(* ExecutionEngine.execute_parallel: one task per tool call.  The event    *)
(* loop starts the tasks in the order of the list; a task runs until its   *)
(* tool awaits, and the tasks that await complete in any order.            *)

InitPar ==
    /\ ParserIdle /\ FsIdle /\ ShIdle /\ ExecIdle /\ RetryIdle
    /\ ProcessIdle /\ StreamIdle /\ MoreIdle
    /\ tools = DefaultTools \cup {RemoteTool}
    /\ tool_calls \in EngCallLists
    /\ task_pc = [i \in 1..Len(tool_calls) |-> "pending"]
    /\ task_result = [i \in 1..Len(tool_calls) |-> JNull]
    /\ completed = <<>>
    /\ execution_history = <<>>
    /\ gathered = <<>>
    /\ par_pc = "running"

\* Task i ends with the outcome r of execute_tool.
TaskDone(i, r) ==
    /\ task_pc' = [task_pc EXCEPT ![i] = "done"]
    /\ task_result' = [task_result EXCEPT ![i] = ExecuteValue(tool_calls[i], r)]
    /\ execution_history' = HistoryAfter(execution_history, tool_calls[i], r)
    /\ completed' = Append(completed, i)
    /\ disk' = r.fs
    /\ sh_started' = sh_started \o r.started

\* Task i resolves the tool and runs it to its end: no await inside.
RunToEnd(i) ==
    \E outcome \in OutcomesOf(tool_calls[i].tool_name) :
        TaskDone(i, execute_tool(tools, tool_calls[i].tool_name,
                                 tool_calls[i].parameters, disk, outcome))

\* The event loop starts task i: self.execute(tool_calls[i]) runs up to the
\* first await of its tool, or to its end when the tool does not await.
TaskStart(i) ==
    /\ par_pc = "running"
    /\ task_pc[i] = "pending"
    /\ \A j \in 1..(i - 1) : task_pc[j] # "pending"
    /\ IF Awaits(tool_calls[i].tool_name)
       THEN /\ task_pc' = [task_pc EXCEPT ![i] = "awaiting"]
            /\ UNCHANGED <<task_result, execution_history, completed, disk, sh_started>>
       ELSE RunToEnd(i)
    /\ UNCHANGED <<tools, tool_calls, gathered, par_pc>>
    /\ UNCHANGED <<parser_vars, fs_kwargs, fs_value, fs_raised, fs_touched,
                   fs_mutated, fs_calls, sh_kwargs, sh_value, sh_raised, sh_ran,
                   sh_calls, exec_vars, retry_vars,
                   proc_vars, stream_vars, more_vars>>

\* The tool of task i resumes and ends; execute returns.
TaskFinish(i) ==
    /\ par_pc = "running"
    /\ task_pc[i] = "awaiting"
    /\ RunToEnd(i)
    /\ UNCHANGED <<tools, tool_calls, gathered, par_pc>>
    /\ UNCHANGED <<parser_vars, fs_kwargs, fs_value, fs_raised, fs_touched,
                   fs_mutated, fs_calls, sh_kwargs, sh_value, sh_raised, sh_ran,
                   sh_calls, exec_vars, retry_vars,
                   proc_vars, stream_vars, more_vars>>

\* return await asyncio.gather(*tasks)
GatherReturn ==
    /\ par_pc = "running"
    /\ \A i \in 1..Len(tool_calls) : task_pc[i] = "done"
    /\ gathered' = Gather(task_result, completed)
    /\ par_pc' = "returned"
    /\ UNCHANGED <<tools, tool_calls, task_pc, task_result, completed, execution_history>>
    /\ UNCHANGED beside_eng

NextPar ==
    \/ \E i \in 1..Len(tool_calls) : TaskStart(i)
    \/ \E i \in 1..Len(tool_calls) : TaskFinish(i)
    \/ GatherReturn

SpecPar == InitPar /\ [][NextPar]_vars

----------------------------------------------------------------------------
(* The callers of ExecutionEngine.execute                                  *)

InitExec ==
    /\ ParserIdle /\ FsIdle /\ ShIdle /\ EngIdle /\ ExecIdle /\ RetryIdle
    /\ ProcessIdle /\ StreamIdle /\ MoreIdle

\* execute(tool_call) ends after execute_tool ended with the outcome r.
Executed(tool_call, r) ==
    /\ exec_call' = tool_call
    /\ exec_outcome' = r
    /\ exec_calls' = exec_calls + 1
    /\ exec_raised' = ExecutePropagates(r)
    /\ exec_value' = IF ExecutePropagates(r) THEN JNull ELSE ExecuteValue(tool_call, r)
    /\ execution_history' = HistoryAfter(execution_history, tool_call, r)
    /\ disk' = r.fs
    /\ sh_started' = sh_started \o r.started

\* What execute leaves alone
ExecuteUnchanged ==
    UNCHANGED <<parser_vars, fs_kwargs, fs_value, fs_raised, fs_touched, fs_mutated,
                fs_calls, sh_kwargs, sh_value, sh_raised, sh_ran, sh_calls, tools,
                tool_calls, task_pc, task_result, completed, gathered, par_pc,
                proc_vars, stream_vars, more_vars>>

\* result = await engine.execute(tool_call)
Execute ==
    /\ exec_calls < MaxExecCalls
    /\ \E tool_call \in ExecToolCalls :
          \E outcome \in OutcomesOf(tool_call.tool_name) :
              Executed(tool_call,
                       execute_tool(tools, tool_call.tool_name, tool_call.parameters,
                                    disk, outcome))
    /\ ExecuteUnchanged
    /\ UNCHANGED retry_vars

NextExec == Execute

SpecExec == InitExec /\ [][NextExec]_vars

----------------------------------------------------------------------------
(* ExecutionEngine.execute_with_retry                                      *)

InitRetry ==
    /\ ParserIdle /\ FsIdle /\ ShIdle /\ EngIdle /\ ExecIdle /\ ProcessIdle /\ StreamIdle
    /\ MoreIdle
    /\ retry_call \in ExecToolCalls
    /\ attempt = 0
    /\ retry_pc = "attempt"
    /\ sleeps = <<>>
    /\ attempt_values = <<>>
    /\ retry_value = JNull

\* Lines 95-105 after execute returned value in the attempt
AfterAttempt(value) ==
    /\ attempt_values' = Append(attempt_values, value)
    /\ IF Successful(value)
       THEN /\ retry_pc' = "returned"
            /\ retry_value' = value
            /\ UNCHANGED sleeps
       ELSE IF attempt < max_retries - 1
       THEN /\ retry_pc' = "sleeping"
            /\ sleeps' = Append(sleeps, Backoff(attempt))
            /\ UNCHANGED retry_value
       ELSE /\ retry_pc' = "returned"
            /\ retry_value' = value
            /\ UNCHANGED sleeps

AttemptEnds(r) ==
    /\ Executed(retry_call, r)
    /\ AfterAttempt(ExecuteValue(retry_call, r))

\* One pass of the loop up to its await asyncio.sleep or its return
RetryAttempt ==
    /\ retry_pc = "attempt"
    /\ \E outcome \in OutcomesOf(retry_call.tool_name) :
          AttemptEnds(execute_tool(tools, retry_call.tool_name, retry_call.parameters,
                                   disk, outcome))
    /\ ExecuteUnchanged
    /\ UNCHANGED <<retry_call, attempt>>

\* asyncio.sleep ends and the loop goes on with the next attempt
RetryWake ==
    /\ retry_pc = "sleeping"
    /\ attempt' = attempt + 1
    /\ retry_pc' = "attempt"
    /\ UNCHANGED <<retry_call, sleeps, attempt_values, retry_value>>
    /\ UNCHANGED <<parser_vars, fs_vars, sh_vars, eng_vars, exec_vars, proc_vars,
                   stream_vars, more_vars>>

NextRetry == RetryAttempt \/ RetryWake

SpecRetry == InitRetry /\ [][NextRetry]_vars

----------------------------------------------------------------------------
(* LLMOrchestrator.process: one turn                                       *)

InitProcess ==
    /\ FsIdle /\ ShIdle /\ EngIdle /\ ExecIdle /\ RetryIdle /\ StreamIdle /\ MoreIdle
    /\ llm_response = <<>>
    /\ user_input \in ProcessInputs
    /\ plan = NoPlan
    /\ raised = FALSE
    /\ pc = "idle"
    /\ models \in ModelRegistries
    /\ injected \in BOOLEAN
    /\ conversation_history \in LoadedHistories
    /\ memory_file = conversation_history
    /\ phase = "idle"
    /\ step_no = 0
    /\ results = <<>>
    /\ final_response = <<>>
    /\ returned = None
    /\ queries = <<>>
    /\ added = <<>>

\* What process leaves alone
ProcessUnchanged ==
    UNCHANGED <<fs_kwargs, fs_value, fs_raised, fs_touched, fs_mutated, fs_calls,
                sh_kwargs, sh_value, sh_raised, sh_ran, sh_calls, tools, tool_calls,
                task_pc, task_result, completed, gathered, par_pc, retry_vars,
                stream_vars, more_vars, models,
                injected, user_input>>

EngineUnchanged ==
    UNCHANGED <<disk, sh_started, execution_history, exec_vars>>

\* A variant of ReturnError that goes back to planning after the failure
ReturnErrorAndReplan(e) ==
    /\ phase' = "planning"
    /\ returned' = Failed(e)

\* Lines 250-256: the except branch returns
ReturnError(e) ==
    /\ phase' = "error"
    /\ returned' = Failed(e)

\* Lines 209-210: the context and the schemas; get_context raises when the
\* history cannot be summarized
StartTurn ==
    /\ phase = "idle"
    /\ IF injected /\ get_context(conversation_history) # "none"
       THEN ReturnError(<<get_context(conversation_history)>>)
       ELSE /\ phase' = "planning"
            /\ UNCHANGED returned
    /\ UNCHANGED <<llm_response, plan, raised, pc, conversation_history, memory_file,
                   step_no, results, final_response, queries, added>>
    /\ EngineUnchanged
    /\ ProcessUnchanged

\* The names of the schemas of line 210
Schemas == IF injected THEN Registered(tools, 1) ELSE <<>>

\* Lines 216-220 after _query_llm returned the text
Planned(text) ==
    /\ llm_response' = text
    /\ raised' = _parse_execution_plan(text, user_input).raised
    /\ IF _parse_execution_plan(text, user_input).raised
       THEN /\ ReturnError(<<"parse">>)
            /\ UNCHANGED plan
       ELSE /\ plan' = _parse_execution_plan(text, user_input).plan
            /\ phase' = "executing"
            /\ UNCHANGED returned

\* Lines 213-220 with the answer of the model gateway
AfterPlanQuery(answer) ==
    IF answer.raised
    THEN /\ ReturnError(answer.text)
         /\ UNCHANGED <<llm_response, plan, raised>>
    ELSE Planned(answer.text)

\* Lines 213-220: the analysis prompt, the plan query and the parse, with
\* what the backend of the gateway does
PlanQueryWith(ran) ==
    /\ phase = "planning"
    /\ queries' = Append(queries,
                         [model_key |-> S("primary"),
                          prompt |-> JStr(_create_analysis_prompt(user_input, Schemas))])
    /\ AfterPlanQuery(_query_llm(models, S("primary"),
                                 JStr(_create_analysis_prompt(user_input, Schemas)),
                                 ran))
    /\ UNCHANGED <<pc, conversation_history, memory_file, step_no, results,
                   final_response, added>>
    /\ EngineUnchanged
    /\ ProcessUnchanged

\* Lines 213-220
PlanQuery == \E ran \in PlanRans : PlanQueryWith(ran)

\* A variant of StepIndex that goes through the list from its end
LastStepFirst(steps, done) == Len(steps) - done

\* Line 221: the for loop goes through plan.steps from its start, whatever
\* the dependencies of the steps are
StepIndex(steps, done) == done + 1

\* The step the loop of line 221 is at
Step == plan.steps[StepIndex(plan.steps, step_no)]

\* Lines 226-227 with an engine: execute ended with the outcome r
ToolStepDone(r) ==
    /\ Executed(Step.tool_call[1], r)
    /\ IF ExecutePropagates(r)
       THEN /\ ReturnError(r.value.s)
            /\ UNCHANGED <<results, step_no>>
       ELSE /\ results' = Append(results, ExecuteValue(Step.tool_call[1], r))
            /\ step_no' = step_no + 1
            /\ UNCHANGED <<phase, returned>>

\* Lines 224-227: a step with a tool call, with what the world outside
\* does for the tool
ToolStepWith(outcome) ==
    /\ phase = "executing"
    /\ step_no < Len(plan.steps)
    /\ requires_tool(Step)
    /\ IF injected
       THEN ToolStepDone(execute_tool(tools, Step.tool_call[1].tool_name,
                                      Step.tool_call[1].parameters, disk, outcome))
       ELSE /\ results' = Append(results, NoEngineResult)
            /\ step_no' = step_no + 1
            /\ UNCHANGED <<phase, returned>>
            /\ EngineUnchanged
    /\ UNCHANGED <<llm_response, plan, raised, pc, conversation_history, memory_file,
                   final_response, queries, added>>
    /\ ProcessUnchanged

\* Lines 224-227
ToolStep ==
    /\ phase = "executing"
    /\ step_no < Len(plan.steps)
    /\ requires_tool(Step)
    /\ \E outcome \in OutcomesOf(Step.tool_call[1].tool_name) : ToolStepWith(outcome)

\* Lines 230-231 with the answer of the model gateway
AfterStepQuery(answer) ==
    IF answer.raised
    THEN /\ ReturnError(answer.text)
         /\ UNCHANGED <<results, step_no>>
    ELSE /\ results' = Append(results, ResponseResult(answer.text))
         /\ step_no' = step_no + 1
         /\ UNCHANGED <<phase, returned>>

\* Lines 228-231: a step without a tool call, with what the backend of
\* the gateway does
ModelStepWith(ran) ==
    /\ phase = "executing"
    /\ step_no < Len(plan.steps)
    /\ ~requires_tool(Step)
    /\ queries' = Append(queries,
                         [model_key |-> ModelOf(Step),
                          prompt |-> PromptOf(Step, user_input)])
    /\ AfterStepQuery(_query_llm(models, ModelOf(Step),
                                 PromptOf(Step, user_input), ran))
    /\ UNCHANGED <<llm_response, plan, raised, pc, conversation_history, memory_file,
                   final_response, added>>
    /\ EngineUnchanged
    /\ ProcessUnchanged

\* Lines 228-231
ModelStep == \E ran \in StepRans : ModelStepWith(ran)

\* Lines 233-237: the loop has ended
Synthesize ==
    /\ phase = "executing"
    /\ step_no = Len(plan.steps)
    /\ phase' = "synthesizing"
    /\ final_response' = FinalResponse(results)
    /\ UNCHANGED <<llm_response, plan, raised, pc, conversation_history, memory_file,
                   step_no, results, returned, queries, added>>
    /\ EngineUnchanged
    /\ ProcessUnchanged

\* A variant of Remember that records the text of the plan query in place
\* of the response
RememberAnalysis(response) ==
    /\ conversation_history' =
          add_interaction(conversation_history, user_input, llm_response)
    /\ memory_file' =
          SavedAfter(memory_file,
                     add_interaction(conversation_history, user_input, llm_response))
    /\ added' = Append(added, [user_input |-> user_input, response |-> llm_response])

\* Lines 240-241 with a memory: add_interaction(user_input, response)
Remember(response) ==
    /\ conversation_history' = add_interaction(conversation_history, user_input, response)
    /\ memory_file' =
          SavedAfter(memory_file,
                     add_interaction(conversation_history, user_input, response))
    /\ added' = Append(added, [user_input |-> user_input, response |-> response])

\* Lines 239-248: the interaction is added and process returns
Complete ==
    /\ phase = "synthesizing"
    /\ IF injected THEN Remember(final_response)
       ELSE UNCHANGED <<conversation_history, memory_file, added>>
    /\ phase' = "complete"
    /\ returned' = Completed(final_response, plan, results)
    /\ UNCHANGED <<llm_response, plan, raised, pc, step_no, results, final_response,
                   queries>>
    /\ EngineUnchanged
    /\ ProcessUnchanged

NextProcess == StartTurn \/ PlanQuery \/ ToolStep \/ ModelStep \/ Synthesize \/ Complete

SpecProcess == InitProcess /\ [][NextProcess]_vars

\* The plan query is pending, a tool step is pending
PlanQueryPending == phase = "planning"
ToolStepPending ==
    phase = "executing" /\ step_no < Len(plan.steps) /\ requires_tool(Step)

\* A turn goes on: every await of process returns.  PlanQuery is enabled
\* exactly when the plan query is pending and ToolStep exactly when a tool
\* step is pending, and each ends what it is enabled by, so their weak
\* fairness is that neither stays pending for ever.
SpecProcessFair ==
    /\ SpecProcess
    /\ WF_vars(StartTurn) /\ WF_vars(ModelStep)
    /\ WF_vars(Synthesize) /\ WF_vars(Complete)
    /\ []<>~PlanQueryPending
    /\ []<>~ToolStepPending

----------------------------------------------------------------------------
(* AgentService.process_streaming: one turn.  The generator runs when the  *)
(* consumer asks for the next event, from the yield it is suspended at to  *)
(* the next yield; the consumer may stop asking at any yield.              *)

InitStream ==
    /\ FsIdle /\ ShIdle /\ EngIdle /\ ExecIdle /\ RetryIdle /\ StreamIdle /\ MoreIdle
    /\ llm_response = <<>>
    /\ user_input \in ProcessInputs
    /\ plan = NoPlan
    /\ raised = FALSE
    /\ pc = "idle"
    /\ models \in ModelRegistries
    /\ injected = TRUE
    /\ conversation_history \in LoadedHistories
    /\ memory_file = conversation_history
    /\ phase = "idle"
    /\ step_no = 0
    /\ results = <<>>
    /\ final_response = <<>>
    /\ returned = None
    /\ queries = <<>>
    /\ added = <<>>

\* What process_streaming leaves alone
StreamUnchanged ==
    UNCHANGED <<fs_kwargs, fs_value, fs_raised, fs_touched, fs_mutated, fs_calls,
                sh_kwargs, sh_value, sh_raised, sh_ran, sh_calls, tools, tool_calls,
                task_pc, task_result, completed, gathered, par_pc, retry_vars,
                more_vars, models, injected, user_input, pc, phase, returned>>

MemoryUnchanged == UNCHANGED <<conversation_history, memory_file, added>>
PlanUnchanged == UNCHANGED <<llm_response, plan, raised>>

\* yield event
Yield(event, at) ==
    /\ events' = Append(events, event)
    /\ stream_pc' = at

\* Lines 82-88
PullStart ==
    /\ stream_pc = "idle"
    /\ Yield(Event("start", <<>>), "start")
    /\ UNCHANGED <<chunks_left, buffer, step_no, results, final_response, queries>>
    /\ MemoryUnchanged /\ PlanUnchanged /\ EngineUnchanged /\ StreamUnchanged

\* Lines 90-99, and lines 202-209 when get_context raises
PullPlanning ==
    /\ stream_pc = "start"
    /\ IF get_context(conversation_history) # "none"
       THEN Yield(ErrorEvent(<<get_context(conversation_history)>>), "error")
       ELSE Yield(Event("planning", <<"Analyzing request and creating execution plan...">>),
                  "planning")
    /\ UNCHANGED <<chunks_left, buffer, step_no, results, final_response, queries>>
    /\ MemoryUnchanged /\ PlanUnchanged /\ EngineUnchanged /\ StreamUnchanged

\* Lines 116-128: the plan of the text, and the event plan_ready
PlanReady(text) ==
    /\ llm_response' = text
    /\ raised' = _parse_execution_plan(text, user_input).raised
    /\ IF _parse_execution_plan(text, user_input).raised
       THEN /\ Yield(ErrorEvent(<<"parse">>), "error")
            /\ UNCHANGED plan
       ELSE /\ plan' = _parse_execution_plan(text, user_input).plan
            /\ Yield(PlanReadyEvent(_parse_execution_plan(text, user_input).plan),
                     "plan_ready")

\* Lines 107-114 with what _query_llm_streaming gives
PlanChunks(stream) ==
    IF stream.raised
    THEN /\ Yield(ErrorEvent(stream.chunks[1]), "error")
         /\ PlanUnchanged
         /\ UNCHANGED <<chunks_left, buffer>>
    ELSE IF stream.chunks = <<>>
    THEN /\ PlanReady(<<>>)
         /\ UNCHANGED <<chunks_left, buffer>>
    ELSE /\ Yield(Event("planning_chunk", stream.chunks[1]), "planning_chunk")
         /\ buffer' = stream.chunks[1]
         /\ chunks_left' = Tail(stream.chunks)
         /\ PlanUnchanged

\* Lines 101-114: the prompt, the query and its first chunk, with what
\* the backend of the gateway may do
PullPlanChunkFrom(rans) ==
    /\ stream_pc = "planning"
    /\ queries' = Append(queries,
                         [model_key |-> S("primary"),
                          prompt |-> JStr(_create_analysis_prompt(user_input,
                                                                  Registered(tools, 1)))])
    /\ \E stream \in _query_llm_streaming(
                         models, S("primary"),
                         JStr(_create_analysis_prompt(user_input, Registered(tools, 1))),
                         PlanAnswers, rans) :
          PlanChunks(stream)
    /\ UNCHANGED <<step_no, results, final_response>>
    /\ MemoryUnchanged /\ EngineUnchanged /\ StreamUnchanged

\* Lines 101-114
PullPlanChunk == PullPlanChunkFrom(PlanRans)

\* Lines 108-128: the next chunk of the plan, or the plan
PullNextPlanChunk ==
    /\ stream_pc = "planning_chunk"
    /\ IF chunks_left # <<>>
       THEN /\ Yield(Event("planning_chunk", Head(chunks_left)), "planning_chunk")
            /\ buffer' = buffer \o Head(chunks_left)
            /\ chunks_left' = Tail(chunks_left)
            /\ PlanUnchanged
       ELSE /\ PlanReady(buffer)
            /\ UNCHANGED <<chunks_left, buffer>>
    /\ UNCHANGED <<step_no, results, final_response, queries>>
    /\ MemoryUnchanged /\ EngineUnchanged /\ StreamUnchanged

\* A variant of LoopHead that adds the interaction before it yields
\* synthesizing
LoopHeadRemembersFirst(results_, done) ==
    /\ results' = results_
    /\ step_no' = done
    /\ IF done < Len(plan.steps)
       THEN /\ Yield(StepStartEvent(plan, done + 1), "step_start")
            /\ UNCHANGED final_response
            /\ MemoryUnchanged
       ELSE /\ final_response' = FinalResponse(results_)
            /\ Remember(FinalResponse(results_))
            /\ Yield(Event("synthesizing", <<"Synthesizing final response...">>),
                     "synthesizing")

\* Lines 132-139 and 175-200: the loop goes on with done steps behind it
\* and the list results_: the next step starts, or the synthesis, or the
\* end without results
LoopHead(results_, done) ==
    /\ results' = results_
    /\ step_no' = done
    /\ IF done < Len(plan.steps)
       THEN /\ Yield(StepStartEvent(plan, done + 1), "step_start")
            /\ UNCHANGED final_response
            /\ MemoryUnchanged
       ELSE IF results_ # <<>>
       THEN /\ Yield(Event("synthesizing", <<"Synthesizing final response...">>),
                     "synthesizing")
            /\ UNCHANGED final_response
            /\ MemoryUnchanged
       ELSE /\ final_response' = FinalResponse(results_)
            /\ Remember(FinalResponse(results_))
            /\ Yield(EndEvent(FinalResponse(results_), plan, results_), "end")

\* Lines 131-139 after plan_ready, lines 132-139 after tool_result
PullStep ==
    /\ stream_pc \in {"plan_ready", "tool_result"}
    /\ LoopHead(results, step_no)
    /\ UNCHANGED <<chunks_left, buffer, queries>>
    /\ PlanUnchanged /\ EngineUnchanged /\ StreamUnchanged

\* Lines 141-149
PullToolExecution ==
    /\ stream_pc = "step_start"
    /\ requires_tool(Step)
    /\ Yield(ToolExecutionEvent(Step.tool_call[1]), "tool_execution")
    /\ UNCHANGED <<chunks_left, buffer, step_no, results, final_response, queries>>
    /\ MemoryUnchanged /\ PlanUnchanged /\ EngineUnchanged /\ StreamUnchanged

\* Lines 151-159 after execute ended with the outcome r
ToolResult(r) ==
    /\ Executed(Step.tool_call[1], r)
    /\ IF ExecutePropagates(r)
       THEN /\ Yield(ErrorEvent(r.value.s), "error")
            /\ UNCHANGED <<results, step_no>>
       ELSE /\ results' = Append(results, ExecuteValue(Step.tool_call[1], r))
            /\ step_no' = step_no + 1
            /\ Yield(ToolResultEvent(ExecuteValue(Step.tool_call[1], r)), "tool_result")

\* Lines 151-159, with what the world outside does for the tool
PullToolResultWith(outcome) ==
    /\ stream_pc = "tool_execution"
    /\ ToolResult(execute_tool(tools, Step.tool_call[1].tool_name,
                               Step.tool_call[1].parameters, disk, outcome))
    /\ UNCHANGED <<chunks_left, buffer, final_response, queries>>
    /\ MemoryUnchanged /\ PlanUnchanged /\ StreamUnchanged

\* Lines 151-159
PullToolResult ==
    /\ stream_pc = "tool_execution"
    /\ \E outcome \in OutcomesOf(Step.tool_call[1].tool_name) :
          PullToolResultWith(outcome)

\* Lines 165-173 with what _query_llm_streaming gives
StepChunks(stream) ==
    IF stream.raised
    THEN /\ Yield(ErrorEvent(stream.chunks[1]), "error")
         /\ UNCHANGED <<chunks_left, buffer, step_no, results, final_response>>
         /\ MemoryUnchanged
    ELSE IF stream.chunks = <<>>
    THEN /\ LoopHead(Append(results, ResponseResult(<<>>)), step_no + 1)
         /\ UNCHANGED <<chunks_left, buffer>>
    ELSE /\ Yield(Event("chunk", stream.chunks[1]), "chunk")
         /\ buffer' = stream.chunks[1]
         /\ chunks_left' = Tail(stream.chunks)
         /\ UNCHANGED <<step_no, results, final_response>>
         /\ MemoryUnchanged

\* Lines 160-173: the query of a step without a tool call and its first
\* chunk, with what the backend of the gateway may do
PullFirstChunkFrom(rans) ==
    /\ stream_pc = "step_start"
    /\ ~requires_tool(Step)
    /\ queries' = Append(queries,
                         [model_key |-> ModelOf(Step),
                          prompt |-> PromptOf(Step, user_input)])
    /\ \E stream \in _query_llm_streaming(models, ModelOf(Step),
                                          PromptOf(Step, user_input),
                                          StepAnswers, rans) :
          StepChunks(stream)
    /\ PlanUnchanged /\ EngineUnchanged /\ StreamUnchanged

\* Lines 160-173
PullFirstChunk == PullFirstChunkFrom(StepRans)

\* A variant of PullNextChunk that keeps the last chunk in place of the
\* chunks joined
PullNextChunkKeepsLast ==
    /\ stream_pc = "chunk"
    /\ IF chunks_left # <<>>
       THEN /\ Yield(Event("chunk", Head(chunks_left)), "chunk")
            /\ buffer' = Head(chunks_left)
            /\ chunks_left' = Tail(chunks_left)
            /\ UNCHANGED <<step_no, results, final_response>>
            /\ MemoryUnchanged
       ELSE /\ LoopHead(Append(results, ResponseResult(buffer)), step_no + 1)
            /\ UNCHANGED <<chunks_left, buffer>>
    /\ UNCHANGED queries
    /\ PlanUnchanged /\ EngineUnchanged /\ StreamUnchanged

\* Lines 165-173: the next chunk of the step, or the end of the step
PullNextChunk ==
    /\ stream_pc = "chunk"
    /\ IF chunks_left # <<>>
       THEN /\ Yield(Event("chunk", Head(chunks_left)), "chunk")
            /\ buffer' = buffer \o Head(chunks_left)
            /\ chunks_left' = Tail(chunks_left)
            /\ UNCHANGED <<step_no, results, final_response>>
            /\ MemoryUnchanged
       ELSE /\ LoopHead(Append(results, ResponseResult(buffer)), step_no + 1)
            /\ UNCHANGED <<chunks_left, buffer>>
    /\ UNCHANGED queries
    /\ PlanUnchanged /\ EngineUnchanged /\ StreamUnchanged

\* Lines 183-200: the synthesis, add_interaction and the event end
PullEnd ==
    /\ stream_pc = "synthesizing"
    /\ final_response' = _synthesize_response(results)
    /\ Remember(_synthesize_response(results))
    /\ Yield(EndEvent(_synthesize_response(results), plan, results), "end")
    /\ UNCHANGED <<chunks_left, buffer, step_no, results, queries>>
    /\ PlanUnchanged /\ EngineUnchanged /\ StreamUnchanged

\* The generator returns after its last event
PullDone ==
    /\ stream_pc \in {"end", "error"}
    /\ stream_pc' = "done"
    /\ UNCHANGED <<events, chunks_left, buffer, step_no, results, final_response, queries>>
    /\ MemoryUnchanged /\ PlanUnchanged /\ EngineUnchanged /\ StreamUnchanged

\* The consumer stops asking: the generator is closed at the yield it is
\* suspended at, and GeneratorExit is no Exception for line 202
StopPulling ==
    /\ stream_pc \notin {"done", "closed"}
    /\ stream_pc' = "closed"
    /\ UNCHANGED <<events, chunks_left, buffer, step_no, results, final_response, queries>>
    /\ MemoryUnchanged /\ PlanUnchanged /\ EngineUnchanged /\ StreamUnchanged

NextStream ==
    \/ PullStart \/ PullPlanning \/ PullPlanChunk \/ PullNextPlanChunk \/ PullStep
    \/ PullToolExecution \/ PullToolResult \/ PullFirstChunk \/ PullNextChunk
    \/ PullEnd \/ PullDone \/ StopPulling

SpecStream == InitStream /\ [][NextStream]_vars

----------------------------------------------------------------------------
(* One turn of the agent, handled by LLMOrchestrator.process or by         *)
(* AgentService.process_streaming.  The service injects the registry, the  *)
(* memory and the engine; process is also called on an orchestrator        *)
(* without them.                                                           *)

TurnByProcess == stream_pc = "idle" /\ NextProcess
TurnByStreaming == phase = "idle" /\ injected /\ NextStream

NextTurn == TurnByProcess \/ TurnByStreaming

SpecTurn == InitProcess /\ [][NextTurn]_vars

----------------------------------------------------------------------------
(* PythonExecutorTool.execute: one call                                    *)

InitPython ==
    /\ ParserIdle /\ FsIdle /\ ShIdle /\ EngIdle /\ ExecIdle /\ RetryIdle
    /\ ProcessIdle /\ StreamIdle /\ MoreIdle

\* Lines 383-426: the call; kwargs["code"] raises KeyError when the code is
\* missing, else exec(code) starts
PyCall ==
    /\ py_pc = "idle"
    /\ \E kwargs \in PyKwargs :
          /\ py_kwargs' = kwargs
          /\ IF HasKey(kwargs, K("code"))
             THEN /\ py_run' \in RunsOf(Get(kwargs, K("code"), JNull))
                  /\ py_pc' = "running"
                  /\ py_value' = JNull
             ELSE /\ py_run' = None
                  /\ py_pc' = "returned"
                  /\ py_value' = PythonExecutorTool_execute(kwargs, "ok")
    /\ py_elapsed' = 0
    /\ UNCHANGED beside_py

\* Line 426: exec(code) goes on for another second; nothing in execute
\* measures the time or reads the timeout argument
PySecond ==
    /\ py_pc = "running"
    /\ py_run.ends = "never" \/ py_elapsed < py_run.after
    /\ py_elapsed < MaxSeconds
    /\ py_elapsed' = py_elapsed + 1
    /\ UNCHANGED <<py_kwargs, py_run, py_pc, py_value>>
    /\ UNCHANGED beside_py

\* Lines 426-435: exec(code) returned or raised, and execute returns
PyExecEnds ==
    /\ py_pc = "running"
    /\ py_run.ends # "never"
    /\ py_elapsed = py_run.after
    /\ py_pc' = "returned"
    /\ py_value' =
          PythonExecutorTool_execute(py_kwargs,
                                     IF py_run.ends = "raises" THEN "exception" ELSE "ok")
    /\ UNCHANGED <<py_kwargs, py_run, py_elapsed>>
    /\ UNCHANGED beside_py

NextPython == PyCall \/ PySecond \/ PyExecEnds

SpecPython == InitPython /\ [][NextPython]_vars

----------------------------------------------------------------------------
(* The callers of ToolRegistry.register_tool                               *)

InitRegistry ==
    /\ ParserIdle /\ FsIdle /\ ShIdle /\ EngIdle /\ ExecIdle /\ RetryIdle
    /\ ProcessIdle /\ StreamIdle /\ MoreIdle

\* registry.register_tool(tool)
Register ==
    /\ Len(register_calls) < Len(DefaultRegistered) + MaxRegister
    /\ \E tool \in ToolObjects :
          /\ tools_dict' = register_tool(tools_dict, tool)
          /\ register_calls' = Append(register_calls, tool)
    /\ UNCHANGED beside_reg

NextRegistry == Register

SpecRegistry == InitRegistry /\ [][NextRegistry]_vars

----------------------------------------------------------------------------
(* The callers of ToolRegistry.execute_tool                                *)

InitTools ==
    /\ ParserIdle /\ FsIdle /\ ShIdle /\ EngIdle /\ ExecIdle /\ RetryIdle
    /\ ProcessIdle /\ StreamIdle /\ MoreIdle

\* execute_tool(tool_name, parameters) ended with the outcome r
ToolExecuted(r) ==
    /\ et_outcome' = r
    /\ disk' = r.fs
    /\ sh_started' = sh_started \o r.started

\* result = await registry.execute_tool(tool_name, parameters)
ExecuteTool ==
    /\ et_calls < MaxToolCalls
    /\ \E tool_name \in DefaultTools :
          \E kwargs \in SchemaKwargs(tool_name), extra \in ExtraKeys,
             outcome \in OutcomesOf(tool_name) :
              /\ et_call' = [tool_name |-> tool_name,
                             parameters |-> WithExtras(kwargs, extra),
                             outcome |-> outcome]
              /\ ToolExecuted(execute_tool(tools, tool_name, WithExtras(kwargs, extra),
                                           disk, outcome))
    /\ et_before' = disk
    /\ et_calls' = et_calls + 1
    /\ UNCHANGED <<parser_vars, fs_kwargs, fs_value, fs_raised, fs_touched, fs_mutated,
                   fs_calls, sh_kwargs, sh_value, sh_raised, sh_ran, sh_calls, eng_vars,
                   exec_vars, retry_vars, proc_vars, stream_vars, py_vars, reg_vars,
                   arena_vars, late_vars>>

NextTools == ExecuteTool

SpecTools == InitTools /\ [][NextTools]_vars

----------------------------------------------------------------------------
(* LLMOrchestrator.arena_consensus: one call, with the query "hi"          *)

InitArena ==
    /\ ParserIdle /\ FsIdle /\ ShIdle /\ EngIdle /\ ExecIdle /\ RetryIdle
    /\ StreamIdle /\ MoreIdle
    /\ models \in ArenaRegistries
    /\ TurnIdle

ArenaUnchanged ==
    UNCHANGED <<parser_vars, fs_vars, sh_vars, eng_vars, exec_vars, retry_vars,
                proc_vars, stream_vars, py_vars, reg_vars, et_vars, late_vars>>

\* arena_consensus(query, models) is called
ArenaCall ==
    /\ arena_pc = "idle"
    /\ arena_models' \in ArenaArguments
    /\ arena_pc' = "called"
    /\ UNCHANGED <<arena_queries, arena_value>>
    /\ ArenaUnchanged

\* The answer of _query_llm to the query the arena makes with this key
ArenaAnswer(key, ran) == _query_llm(models, key, JStr(<<"hi">>), ran)

\* Lines 485-486: fewer than two models, the primary model is asked
ArenaSingle ==
    /\ arena_pc = "called"
    /\ Len(ArenaModels(models, arena_models)) < 2
    /\ \E ran \in ArenaRans :
          /\ arena_queries' =
                <<[model_key |-> S("primary"),
                   response |-> ArenaAnswer(S("primary"), ran).text]>>
          /\ arena_value' = ArenaAnswer(S("primary"), ran).text
    /\ arena_pc' = "returned"
    /\ UNCHANGED arena_models
    /\ ArenaUnchanged

\* Lines 489-491: the next model of the list is asked
ArenaQuery ==
    /\ arena_pc = "called"
    /\ Len(ArenaModels(models, arena_models)) >= 2
    /\ Len(arena_queries) < Len(ArenaModels(models, arena_models))
    /\ \E ran \in ArenaRans :
          arena_queries' =
              Append(arena_queries,
                     [model_key |-> ArenaModels(models, arena_models)[Len(arena_queries) + 1],
                      response |->
                          ArenaAnswer(ArenaModels(models, arena_models)[Len(arena_queries) + 1],
                                      ran).text])
    /\ UNCHANGED <<arena_models, arena_pc, arena_value>>
    /\ ArenaUnchanged

\* Line 494: the responses under the header
ArenaReturn ==
    /\ arena_pc = "called"
    /\ Len(ArenaModels(models, arena_models)) >= 2
    /\ Len(arena_queries) = Len(ArenaModels(models, arena_models))
    /\ arena_value' =
          Consensus(Len(ArenaModels(models, arena_models)),
                    [i \in 1..Len(arena_queries) |-> arena_queries[i].response])
    /\ arena_pc' = "returned"
    /\ UNCHANGED <<arena_models, arena_queries>>
    /\ ArenaUnchanged

NextArena == ArenaCall \/ ArenaSingle \/ ArenaQuery \/ ArenaReturn

SpecArena == InitArena /\ [][NextArena]_vars

----------------------------------------------------------------------------
(* The callers of _synthesize_response                                     *)

InitSynth ==
    /\ ParserIdle /\ FsIdle /\ ShIdle /\ EngIdle /\ ExecIdle /\ RetryIdle
    /\ ProcessIdle /\ StreamIdle /\ PyIdle /\ RegIdle /\ ArenaIdle /\ EtIdle
    /\ AgentIdle /\ BothIdle
    /\ syn_results \in SynResultLists
    /\ syn_pc = "idle"
    /\ syn_value = <<>>

\* final_response = await self._synthesize_response(user_input, plan, results)
Synthesized ==
    /\ syn_pc = "idle"
    /\ syn_value' = _synthesize_response(syn_results)
    /\ syn_pc' = "returned"
    /\ UNCHANGED syn_results
    /\ UNCHANGED <<parser_vars, fs_vars, sh_vars, eng_vars, exec_vars, retry_vars,
                   proc_vars, stream_vars, py_vars, reg_vars, arena_vars, et_vars,
                   agent_vars, both_vars>>

NextSynth == Synthesized

SpecSynth == InitSynth /\ [][NextSynth]_vars

----------------------------------------------------------------------------
(* VIBE1337Agent.process in streaming mode.  The loop asks the generator   *)
(* of process_streaming for the next event, handles it, and asks again     *)
(* until the generator returns.                                            *)

InitAgent == InitStream

\* Line 113: async for chunk in self.agent.process_streaming(user_input)
AgentStarts ==
    /\ agent_pc = "idle"
    /\ agent_pc' = "consuming"
    /\ UNCHANGED <<seen, full_response, final_result, agent_value>>
    /\ UNCHANGED <<parser_vars, fs_vars, sh_vars, eng_vars, exec_vars, retry_vars,
                   proc_vars, stream_vars, py_vars, reg_vars, arena_vars, et_vars,
                   syn_vars, both_vars>>

\* What runs between two yields of the generator
GeneratorRuns ==
    \/ PullStart \/ PullPlanning \/ PullPlanChunk \/ PullNextPlanChunk \/ PullStep
    \/ PullToolExecution \/ PullToolResult \/ PullFirstChunk \/ PullNextChunk
    \/ PullEnd \/ PullDone

\* Line 113: the loop asks for the next event
AgentPulls ==
    /\ agent_pc = "consuming"
    /\ seen = Len(events)
    /\ GeneratorRuns

\* Lines 183-185 and 202-209 of agent_service.py: _synthesize_response
\* raises, as json.dumps does on a result it cannot encode (a registered
\* tool may return any object), and the generator yields error
PullSynthesisRaises ==
    /\ agent_pc = "consuming"
    /\ seen = Len(events)
    /\ stream_pc = "synthesizing"
    /\ \E k \in 1..Len(results) : ~HasKey(results[k], K("response"))
    /\ Yield(ErrorEvent(<<"Object is not JSON serializable">>), "error")
    /\ UNCHANGED <<chunks_left, buffer, step_no, results, final_response, queries>>
    /\ MemoryUnchanged /\ PlanUnchanged /\ EngineUnchanged /\ StreamUnchanged

\* Lines 114-125 of vibe1337.py: the body of the loop for one event
AgentHandles ==
    /\ agent_pc = "consuming"
    /\ seen < Len(events)
    /\ seen' = seen + 1
    /\ full_response' = Collected(full_response, events[seen + 1])
    /\ final_result' = FinalResult(final_result, events[seen + 1])
    /\ UNCHANGED <<agent_pc, agent_value>>
    /\ UNCHANGED <<parser_vars, fs_vars, sh_vars, eng_vars, exec_vars, retry_vars,
                   proc_vars, stream_vars, py_vars, reg_vars, arena_vars, et_vars,
                   syn_vars, both_vars>>

\* Lines 127-129: the generator has returned and process returns
AgentReturns ==
    /\ agent_pc = "consuming"
    /\ stream_pc = "done"
    /\ seen = Len(events)
    /\ agent_pc' = "returned"
    /\ agent_value' = AgentValue(final_result, full_response)
    /\ UNCHANGED <<seen, full_response, final_result>>
    /\ UNCHANGED <<parser_vars, fs_vars, sh_vars, eng_vars, exec_vars, retry_vars,
                   proc_vars, stream_vars, py_vars, reg_vars, arena_vars, et_vars,
                   syn_vars, both_vars>>

NextAgent ==
    AgentStarts \/ AgentPulls \/ PullSynthesisRaises \/ AgentHandles \/ AgentReturns

SpecAgent == InitAgent /\ [][NextAgent]_vars

----------------------------------------------------------------------------
(* One input handled twice from the same state: by LLMOrchestrator.process *)
(* and then, from the state the first turn began in, by                    *)
(* AgentService.process_streaming.  The model gateway and the world        *)
(* outside are the same for the two turns: gateway is what the backend     *)
(* does for the plan query and for the query of a step, world is what the  *)
(* subprocess of the shell and the other tools do.  The clock is the same  *)
(* too: execution_time and the timestamps are one token.                   *)

\* The registries whose provider _query_llm_streaming does not stream from
PlainRegistries == { r \in ModelRegistries : ~Streams(r[S("primary")]) }

Gateways == [plan : PlanRans, step : StepRans]
Worlds == [shell : SubprocessOutcomes, other : {"ok", "no_module", "exception"}]

\* What the world does for a call of the tool
WorldOutcome(tool_name) ==
    IF tool_name = S("shell") THEN world.shell
    ELSE IF world.other \in OutcomesOf(tool_name) THEN world.other
    ELSE "ok"

InitBoth ==
    /\ FsIdle /\ ShIdle /\ EngIdle /\ ExecIdle /\ RetryIdle /\ StreamIdle
    /\ PyIdle /\ RegIdle /\ ArenaIdle /\ EtIdle /\ SynIdle /\ AgentIdle
    /\ llm_response = <<>>
    /\ user_input \in ProcessInputs
    /\ plan = NoPlan
    /\ raised = FALSE
    /\ pc = "idle"
    /\ models \in PlainRegistries
    /\ injected = TRUE
    /\ conversation_history \in LoadedHistories
    /\ memory_file = conversation_history
    /\ phase = "idle"
    /\ step_no = 0
    /\ results = <<>>
    /\ final_response = <<>>
    /\ returned = None
    /\ queries = <<>>
    /\ added = <<>>
    /\ gateway \in Gateways
    /\ world \in Worlds
    /\ began = conversation_history
    /\ first = None

\* The turn of process, lines 203-256 of the orchestrator
FirstTurn ==
    /\ first = None
    /\ \/ StartTurn
       \/ PlanQueryWith(gateway.plan)
       \/ /\ phase = "executing"
          /\ step_no < Len(plan.steps)
          /\ requires_tool(Step)
          /\ ToolStepWith(WorldOutcome(Step.tool_call[1].tool_name))
       \/ ModelStepWith(gateway.step)
       \/ Synthesize
       \/ Complete

\* What a turn left behind
LeftBehind ==
    [store |-> conversation_history, file |-> memory_file, added |-> added,
     queries |-> queries, history |-> execution_history, calls |-> exec_calls,
     last_call |-> exec_call, disk |-> disk, started |-> sh_started]

\* process has returned: what it left is kept, and the state the turn
\* began in is there again
Rewind ==
    /\ first = None
    /\ phase \in {"complete", "error"}
    /\ first' = LeftBehind
    /\ conversation_history' = began
    /\ memory_file' = began
    /\ added' = <<>>
    /\ queries' = <<>>
    /\ results' = <<>>
    /\ step_no' = 0
    /\ final_response' = <<>>
    /\ llm_response' = <<>>
    /\ plan' = NoPlan
    /\ raised' = FALSE
    /\ disk' = InitialFs
    /\ sh_started' = <<>>
    /\ execution_history' = <<>>
    /\ exec_call' = None
    /\ exec_outcome' = None
    /\ exec_value' = JNull
    /\ exec_raised' = FALSE
    /\ exec_calls' = 0
    /\ UNCHANGED <<gateway, world, began, syn_vars, agent_vars>>
    /\ UNCHANGED <<py_vars, reg_vars, arena_vars, et_vars>>
    /\ UNCHANGED <<fs_kwargs, fs_value, fs_raised, fs_touched, fs_mutated, fs_calls,
                   sh_kwargs, sh_value, sh_raised, sh_ran, sh_calls, tools, tool_calls,
                   task_pc, task_result, completed, gathered, par_pc, retry_vars,
                   stream_vars, models, injected, user_input, pc, phase, returned>>

\* The turn of process_streaming, lines 61-209 of the agent service
SecondTurn ==
    /\ first # None
    /\ \/ PullStart \/ PullPlanning
       \/ PullPlanChunkFrom({gateway.plan})
       \/ PullNextPlanChunk \/ PullStep \/ PullToolExecution
       \/ /\ stream_pc = "tool_execution"
          /\ PullToolResultWith(WorldOutcome(Step.tool_call[1].tool_name))
       \/ PullFirstChunkFrom({gateway.step})
       \/ PullNextChunk \/ PullEnd \/ PullDone

NextBoth == FirstTurn \/ Rewind \/ SecondTurn

SpecBoth == InitBoth /\ [][NextBoth]_vars

----------------------------------------------------------------------------
(* Properties of _parse_execution_plan                                     *)

\* C1: _parse_execution_plan is total and never returns an empty plan:
\* whatever the model text and the user input, the call returns a plan with
\* at least one step and no exception reaches the caller.
C1_ParseTotalNonEmpty ==
    pc = "parsed" => ~raised /\ Len(plan.steps) >= 1

\* A call whose try block raised a TypeError and that returned a plan
C1_Witness ==
    /\ pc = "parsed"
    /\ TryParse(llm_response, user_input).exc = "TypeError"
    /\ Len(plan.steps) = 1

\* No JSON object can be decoded from the text: json.loads fails on what is
\* extracted, or gives a value that is no object, or an object whose plan
\* list has an entry that is no object.
Undecodable(text) ==
    LET r == Decode(text) IN
    \/ ~r.ok
    \/ r.val.t # "obj"
    \/ /\ Get(r.val, <<"plan">>, JNull).t = "arr"
       /\ \E i \in 1..Len(Get(r.val, <<"plan">>, JNull).items) :
            Get(r.val, <<"plan">>, JNull).items[i].t # "obj"

\* C2: for a model text from which no JSON object can be decoded the call
\* returns the fixed fallback plan: goal "Respond to user", exactly one
\* step, which has no tool call and whose prompt is the user input.
C2_UndecodableGivesFallback ==
    (pc = "parsed" /\ Undecodable(llm_response)) =>
        /\ ~raised
        /\ plan.goal = S("Respond to user")
        /\ Len(plan.steps) = 1
        /\ ~requires_tool(plan.steps[1])
        /\ plan.steps[1].prompt = JStr(user_input)

\* A parsed text that decoded to an object whose plan list holds an entry
\* that is no object
C2_Witness ==
    /\ pc = "parsed"
    /\ Decode(llm_response).ok
    /\ Decode(llm_response).val.t = "obj"
    /\ Undecodable(llm_response)
    /\ plan.goal = S("Respond to user")

\* The text decodes to an object whose plan list is empty.
EmptyPlanList(text) ==
    LET r == Decode(text) IN
    r.ok /\ r.val.t = "obj" /\ Get(r.val, <<"plan">>, JNull) = JArr(<<>>)

\* A text json.loads fails on (the one of test_debug.py)
NotJsonText == <<"This", WS, "is", WS, "not", WS, "JSON">>

StepMatches(step, step_data) ==
    /\ step.step_id = Get(step_data, <<"step_id">>, JNull)
    /\ step.description = Get(step_data, <<"description">>, JNull)
    /\ requires_tool(step) = HasKey(step_data, <<"tool_call">>)
    /\ requires_tool(step) =>
        /\ step.tool_call[1].tool_name =
               Get(Get(step_data, <<"tool_call">>, JNull), <<"tool_name">>, JNull)
        /\ step.tool_call[1].parameters =
               Get(Get(step_data, <<"tool_call">>, JNull), <<"parameters">>, JNull)

\* The plan p has the goal and, in order, the steps of the plan JSON v.
PlanMatches(p, v) ==
    /\ p.goal = Get(v, <<"goal">>, JNull)
    /\ Len(p.steps) = Len(Get(v, <<"plan">>, JNull).items)
    /\ \A i \in 1..Len(p.steps) :
            StepMatches(p.steps[i], Get(v, <<"plan">>, JNull).items[i])

\* A step in the plan JSON shape: {step_id, description, tool_call?
\* {tool_name, parameters}, dependencies, prompt?}
StepToJson(step) ==
    LET withTool ==
            IF requires_tool(step)
            THEN DictSet(JObj(<<K("step_id"), K("description")>>,
                              <<step.step_id, step.description>>),
                         K("tool_call"),
                         JObj(<<K("tool_name"), K("parameters")>>,
                              <<step.tool_call[1].tool_name,
                                step.tool_call[1].parameters>>))
            ELSE JObj(<<K("step_id"), K("description")>>,
                      <<step.step_id, step.description>>)
        withDeps == DictSet(withTool, K("dependencies"), step.dependencies)
    IN  IF step.prompt = JNull THEN withDeps
        ELSE DictSet(withDeps, K("prompt"), step.prompt)

\* A plan in the plan JSON shape: {goal, plan, expected_outcome}
PlanToJson(p) ==
    JObj(<<K("goal"), K("plan"), K("expected_outcome")>>,
         <<p.goal, JArr([i \in 1..Len(p.steps) |-> StepToJson(p.steps[i])]),
           p.expected_outcome>>)

\* Parsing the serialization of the plan p gives p again.
RoundTrips(p, input) ==
    _parse_execution_plan(Dumps(PlanToJson(p)), input).plan = p

\* The fenced texts of well-formed plans, each with its plan JSON and the
\* prose before it and the kind of its fence
FencedPlanTexts ==
    { <<Text(b, w, Dumps(v), a), v, b, w>> :
        b \in ProseBefore, w \in {"json_fence", "fence"},
        v \in WellFormedPlans, a \in ProseAfter }

C28_StepIdsDistinct ==
    (pc = "parsed" /\ ~raised) =>
        \A i, j \in 1..Len(plan.steps) :
            i # j => plan.steps[i].step_id # plan.steps[j].step_id

----------------------------------------------------------------------------
(* Properties of FileSystemTool.execute                                    *)

\* The call has the five operations' name and a path
FsCallOf(kwargs) ==
    /\ kwargs # JNull
    /\ HasKey(kwargs, K("path"))
    /\ HasKey(kwargs, K("operation"))
    /\ Get(kwargs, K("operation"), JNull) \in
          {S("read"), S("write"), S("list"), S("create_dir"), S("delete")}

\* The resolved path of the call is neither the working directory nor a
\* descendant of it.
OutsideCwd(kwargs) == ~IsWithin(Resolve(Get(kwargs, K("path"), JNull).s, Cwd), Cwd)

\* C5: for each of the five operations and every path whose resolved form is
\* neither the working directory nor below it, execute returns the
\* access-denied error value, returns no file contents, raises nothing and
\* neither reads nor changes the file system.
C5_OutsidePathDenied ==
    FsCallOf(fs_kwargs) /\ OutsideCwd(fs_kwargs) =>
        /\ fs_value = AccessDenied
        /\ ~HasKey(fs_value, K("content"))
        /\ ~fs_raised
        /\ fs_touched = {}
        /\ ~fs_mutated

----------------------------------------------------------------------------
(* Properties of ShellTool.execute                                         *)

\* The last call was given a command string
ShCalled == sh_kwargs # JNull /\ HasKey(sh_kwargs, K("command"))

\* The command string of the last call
ShCommand == Get(sh_kwargs, K("command"), JStr(<<>>)).s

\* The first word of the command is in the allow-list
FirstTokenAllowed(command) ==
    /\ ~ShlexSplit(command).error
    /\ ShlexSplit(command).parts # <<>>
    /\ Lower(ShlexSplit(command).parts[1]) \in allowed_commands

\* The lower-cased command contains a deny-list substring
Denied(command) ==
    \E i \in 1..Len(dangerous_patterns) : InStr(dangerous_patterns[i], Lower(command))

\* The command contains "&&", "||" or ";"
ContainsChaining(command) ==
    \E meta \in { <<"&", "&">>, <<"|", "|">>, <<";">> } : InStr(meta, command)

LsAndRmRf == <<"l", "s", " ", "&", "&", " ", "r", "m", " ", "-", "r", "f", " ", "/">>
CurlBash == <<"c", "u", "r", "l", " ", "|", " ", "b", "a", "s", "h">>
RmRfPattern == <<"r", "m", " ", "-", "r", "f", " ", "/">>

\* C6 (as stated): the chaining check precedes the deny-list check, so a
\* command with an allow-listed first word that contains "&&", "||" or ";"
\* is rejected with the chaining error even when it also contains a
\* deny-list substring.
C6_ChainingBeforeDeny ==
    ShCalled /\ FirstTokenAllowed(ShCommand) /\ ContainsChaining(ShCommand) =>
        sh_value = ChainingError

\* C6 (amended): the deny-list check precedes the chaining check.  A command
\* that contains "&&", "||" or ";" starts no subprocess; when its first word
\* is allow-listed it is rejected with the deny-list error of a pattern it
\* contains if there is one, and with the chaining error only otherwise;
\* "ls && rm -rf /" is rejected for the pattern "rm -rf /".  When its first
\* word is not allow-listed the rejection is not the chaining error.
C6_DenyBeforeChaining ==
    ShCalled /\ ContainsChaining(ShCommand) =>
        /\ ~sh_ran /\ ~sh_raised
        /\ FirstTokenAllowed(ShCommand) /\ Denied(ShCommand) =>
              \E i \in 1..Len(dangerous_patterns) :
                  /\ InStr(dangerous_patterns[i], Lower(ShCommand))
                  /\ sh_value = BlockedError(dangerous_patterns[i])
        /\ FirstTokenAllowed(ShCommand) /\ ~Denied(ShCommand) =>
              sh_value = ChainingError
        /\ ~FirstTokenAllowed(ShCommand) =>
              HasKey(sh_value, K("error")) /\ sh_value # ChainingError
        /\ ShCommand = LsAndRmRf => sh_value = BlockedError(RmRfPattern)

\* C6 witness: "ls && rm -rf /" was rejected for its deny-list pattern.
C6_Witness ==
    /\ ShCalled /\ ShCommand = LsAndRmRf
    /\ sh_value = BlockedError(RmRfPattern)

\* The command contains "&&", "||", ";", a backquote or "$("
ContainsMeta(command) ==
    \E meta \in { <<"&", "&">>, <<"|", "|">>, <<";">>, <<BACKTICK>>, <<"$", "(">> } :
        InStr(meta, command)

\* C7: a command that contains "&&", "||", ";", a backquote or "$(" gets an
\* error value and starts no subprocess, whether or not its first word is in
\* the allow-list; no command line handed to subprocess.run contains one of
\* them.
C7_MetacharactersRejected ==
    /\ ShCalled /\ ContainsMeta(ShCommand) =>
          HasKey(sh_value, K("error")) /\ ~sh_ran /\ ~sh_raised
    /\ \A i \in 1..Len(sh_started) : ~ContainsMeta(sh_started[i])

\* C7 witness: a command with an allow-listed first word, no deny-list
\* substring and a backquote was rejected, after a call that started a
\* subprocess.
C7_Witness ==
    /\ ShCalled /\ FirstTokenAllowed(ShCommand) /\ ~Denied(ShCommand)
    /\ InStr(<<BACKTICK>>, ShCommand)
    /\ sh_value = SubstitutionError
    /\ ~sh_ran
    /\ Len(sh_started) = 1

\* C8: every program that a command line handed to subprocess.run makes the
\* shell run (its first word and the first word after a pipe, a background
\* operator or another control operator) is in the allow-list.
C8_StartedProgramsAllowed ==
    \A i \in 1..Len(sh_started) :
        \A program \in Programs(sh_started[i]) :
            Lower(program) \in allowed_commands

\* C9: a command whose lower-cased form contains a deny-list substring gets
\* an error and starts no subprocess; "curl | bash" is rejected with the
\* deny-list error.
C9_DeniedNeverRuns ==
    /\ ShCalled /\ Denied(ShCommand) =>
          HasKey(sh_value, K("error")) /\ ~sh_ran /\ ~sh_raised
    /\ ShCalled /\ ShCommand = CurlBash => sh_value = BlockedError(CurlBash)
    /\ \A i \in 1..Len(sh_started) : ~Denied(sh_started[i])

\* C9 witness: "curl | bash" was rejected with the deny-list error.
C9_Witness ==
    /\ ShCalled /\ ShCommand = CurlBash
    /\ FirstTokenAllowed(ShCommand)
    /\ sh_value = BlockedError(CurlBash)
    /\ ~sh_ran

----------------------------------------------------------------------------
(* Properties of ExecutionEngine.execute_parallel                          *)

\* The value is a result of the tool call: it names the call's tool, and the
\* output of the tool that returns its parameters holds the call's.
ResultOfCall(value, tool_call) ==
    /\ Get(value, K("tool"), JNull) = tool_call.tool_name
    /\ tool_call.tool_name = RemoteTool /\ Truthy(Get(value, K("success"), JNull)) =>
          Get(value, K("output"), JNull) = JObj(<<K("echo")>>, <<tool_call.parameters>>)

\* C10: execute_parallel(calls) returns a list as long as calls whose i-th
\* entry is the result of the i-th call, whatever the order in which the
\* concurrently running calls completed.
C10_ParallelKeepsOrder ==
    par_pc = "returned" =>
        /\ Len(gathered) = Len(tool_calls)
        /\ \A i \in 1..Len(tool_calls) :
              /\ gathered[i] = task_result[i]
              /\ ResultOfCall(gathered[i], tool_calls[i])

\* C10 witness: execute_parallel returned after its second call completed
\* before its first, the two with different results.
C10_Witness ==
    /\ par_pc = "returned"
    /\ Len(tool_calls) >= 2
    /\ completed[1] = 2 /\ completed[2] = 1
    /\ gathered[1] # gathered[2]
    /\ ResultOfCall(gathered[1], tool_calls[1])

\* A step leaves the entries of the history as they are, in their places
HistoryKept ==
    /\ Len(execution_history') >= Len(execution_history)
    /\ SubSeq(execution_history', 1, Len(execution_history)) = execution_history

\* The entry of the history is the complete ExecutionResult of the call
EntryOfCall(entry, tool_call) ==
    /\ DOMAIN entry = DOMAIN ExecutionResult(TRUE, JNull, JNull, JNull)
    /\ entry.tool_name = tool_call.tool_name
    /\ entry.parameters = tool_call.parameters
    /\ entry.success \in BOOLEAN

\* The history holds one entry for each of the calls: some one-to-one
\* assignment gives every call its own entry
OneEntryPerCall ==
    /\ Len(execution_history) = Len(tool_calls)
    /\ \E at \in [1..Len(tool_calls) -> 1..Len(execution_history)] :
          /\ \A i, j \in 1..Len(tool_calls) : at[i] = at[j] => i = j
          /\ \A i \in 1..Len(tool_calls) :
                EntryOfCall(execution_history[at[i]], tool_calls[i])

\* C35: the history is append-only: no step changes, removes or moves an
\* entry it holds; and when execute_parallel over n calls has returned, in
\* whatever order the calls completed, the history has grown by n complete
\* entries, one for each call.
C35_HistoryAppendOnly ==
    /\ [][HistoryKept]_vars
    /\ [](par_pc = "returned" => OneEntryPerCall)

----------------------------------------------------------------------------
(* Properties of ExecutionEngine.execute_with_retry                        *)

\* execute_with_retry has returned a value whose success is not true
RetryGaveUp == retry_pc = "returned" /\ ~Successful(retry_value)

\* C11: when the tool call fails on every attempt, execute_with_retry runs it
\* exactly three times, waits 1 second after the first failure and 2 seconds
\* after the second, lets no exception out and returns the failing result of
\* the third attempt.
C11_RetryThriceThenLastFailure ==
    RetryGaveUp =>
        /\ Len(attempt_values) = 3
        /\ exec_calls = 3
        /\ \A i \in 1..3 : Get(attempt_values[i], K("success"), JNull) = JBool("false")
        /\ sleeps = <<1, 2>>
        /\ ~exec_raised
        /\ retry_value = attempt_values[3]

\* C11 witness: a call that failed three times has been given up
C11_Witness ==
    /\ RetryGaveUp
    /\ Len(attempt_values) = 3
    /\ Len(sleeps) = 2
    /\ Get(retry_value, K("success"), JNull) = JBool("false")

\* The value of an attempt has success true
SuccessTrue(value) == Get(value, K("success"), JNull) = JBool("true")

\* C29: execute_with_retry stops at the first attempt that succeeds: no
\* attempt follows a successful one, and when the call returns a success
\* after k attempts, k executions were made, k - 1 waits (of 1 second, then
\* 2) and the value returned is the one of attempt k.
C29_StopsAtFirstSuccess ==
    /\ \A i \in 1..(Len(attempt_values) - 1) : ~SuccessTrue(attempt_values[i])
    /\ (attempt_values # <<>> /\ SuccessTrue(attempt_values[Len(attempt_values)])) =>
          /\ retry_pc = "returned"
          /\ Len(attempt_values) \in 1..3
          /\ exec_calls = Len(attempt_values)
          /\ sleeps = SubSeq(<<1, 2>>, 1, Len(attempt_values) - 1)
          /\ retry_value = attempt_values[Len(attempt_values)]

\* C29 witness: the third attempt was the first to succeed
C29_Witness ==
    /\ retry_pc = "returned"
    /\ Len(attempt_values) = 3
    /\ ~SuccessTrue(attempt_values[1])
    /\ ~SuccessTrue(attempt_values[2])
    /\ SuccessTrue(retry_value)
    /\ sleeps = <<1, 2>>
    /\ exec_calls = 3

\* The error values with which the tools turn a call down for security
PolicyErrors ==
    { AccessDenied, ChainingError, SubstitutionError,
      NotAllowedError(<<"r", "m">>),
      ErrorValue(<<"Access to ", ".", "e", "n", "v", " is restricted">>) }

\* The tool turned the call of the attempt down for security
PolicyRejected(value) == Get(value, K("output"), JNull) \in PolicyErrors

\* C22: a call the security policy rejects gives a structured error result
\* and is not retried: through execute_with_retry too the tool is invoked
\* once, nothing is waited for, and the error result is what is returned.
C22_PolicyRejectionNotRetried ==
    (retry_pc = "returned" /\ attempt_values # <<>> /\ PolicyRejected(attempt_values[1])) =>
        /\ exec_calls = 1
        /\ sleeps = <<>>
        /\ retry_value = attempt_values[1]
        /\ HasKey(Get(retry_value, K("output"), JNull), K("error"))

----------------------------------------------------------------------------
(* Properties of ExecutionEngine.execute                                   *)

\* execute has been called
ExecCalled == exec_call # None

\* The tool raised or returned an error: execute_tool raised, or gave a
\* dict with an "error" entry
ToolFailed ==
    /\ ExecCalled
    /\ \/ exec_outcome.raised
       \/ exec_outcome.value.t = "obj" /\ HasKey(exec_outcome.value, K("error"))

\* C12: execute lets no failure out to its caller: it always returns a dict,
\* and when the tool raised or returned an error that dict has success false.
C12_ExecuteNeverPropagates ==
    ExecCalled =>
        /\ ~exec_raised
        /\ exec_value.t = "obj"
        /\ HasKey(exec_value, K("success"))
        /\ ToolFailed => Get(exec_value, K("success"), JNull) = JBool("false")

\* C12 witness: execute_tool raised inside execute and execute returned a
\* failing dict
C12_Witness ==
    /\ ExecCalled
    /\ exec_outcome.raised
    /\ ~exec_raised
    /\ Get(exec_value, K("success"), JNull) = JBool("false")

\* The operations FileSystemTool.execute has a branch for
KnownOperations ==
    {S("read"), S("write"), S("list"), S("create_dir"), S("delete")}

\* A call of the filesystem tool with a path inside the working directory
\* and an operation that is none of the five
UnknownOperationInside(tool_call) ==
    /\ tool_call.tool_name = S("filesystem")
    /\ tool_call.parameters.t = "obj"
    /\ HasKey(tool_call.parameters, K("operation"))
    /\ HasKey(tool_call.parameters, K("path"))
    /\ Get(tool_call.parameters, K("operation"), JNull) \notin KnownOperations
    /\ IsWithin(Resolve(Get(tool_call.parameters, K("path"), JNull).s, Cwd), Cwd)

\* C37: a call of the filesystem tool with a path inside the working
\* directory and an operation that is none of read, write, list,
\* create_dir and delete changes nothing in the file system and returns
\* None, and execute returns success true with the output null for it and
\* records it in the history as a success.
C37_UnknownOperationSucceeds ==
    [][(exec_calls' = exec_calls + 1 /\ UnknownOperationInside(exec_call')) =>
          /\ disk' = disk
          /\ sh_started' = sh_started
          /\ ~exec_outcome'.raised
          /\ exec_outcome'.value = JNull
          /\ ~exec_raised'
          /\ Get(exec_value', K("success"), JNull) = JBool("true")
          /\ HasKey(exec_value', K("output"))
          /\ Get(exec_value', K("output"), S("none")) = JNull
          /\ ~HasKey(exec_value', K("error"))
          /\ Len(execution_history') = Len(execution_history) + 1
          /\ execution_history'[Len(execution_history')].success = TRUE
          /\ execution_history'[Len(execution_history')].output = JNull]_vars

\* C37 witness: execute has returned success true and the output null for
\* the operation move on the file f of the working directory, and the file
\* system is as it was
C37_Witness ==
    /\ exec_calls = 1
    /\ UnknownOperationInside(exec_call)
    /\ Get(exec_call.parameters, K("operation"), JNull) = S("move")
    /\ Get(exec_value, K("success"), JNull) = JBool("true")
    /\ Get(exec_value, K("output"), S("none")) = JNull
    /\ disk = InitialFs

\* C13: every call of execute appends exactly one ExecutionResult to the
\* history, also when an exception was raised inside the engine.
C13_EveryCallAppendsOne == Len(execution_history) = exec_calls

----------------------------------------------------------------------------
(* Properties of LLMOrchestrator.process                                   *)

\* The loop over the steps has been entered
InLoop == phase \in {"executing", "synthesizing", "complete"}

\* The result is the one the step produces: a tool step gives the dict of
\* the engine for its tool (or the no-engine error), a step without a tool
\* call the dict of the model's response
BelongsTo(result, step) ==
    IF step.tool_call # None
    THEN \/ result = NoEngineResult
         \/ /\ HasKey(result, K("tool"))
            /\ Get(result, K("tool"), JNull) = step.tool_call[1].tool_name
    ELSE result.keys = <<K("response")>>

\* C14: the steps of the plan run one after the other in the order of the
\* plan: the results list grows by one entry for each step, its i-th entry
\* is the result of the i-th step, and after the last step there is one
\* entry for each step; the dependencies of a step change nothing of this.
C14_StepsInPlanOrder ==
    InLoop =>
        /\ Len(results) = step_no
        /\ step_no <= Len(plan.steps)
        /\ \A i \in 1..Len(results) : BelongsTo(results[i], plan.steps[i])
        /\ phase \in {"synthesizing", "complete"} => Len(results) = Len(plan.steps)

\* C14 witness: a plan whose first step names the second as a dependency
\* has completed with two results
C14_Witness ==
    /\ phase = "complete"
    /\ Len(plan.steps) = 2
    /\ plan.steps[1].dependencies = JArr(<<S("2")>>)
    /\ Len(returned.execution_results) = 2
    /\ HasKey(results[1], K("tool"))
    /\ HasKey(results[2], K("response"))

\* The i-th result is the failure of a tool step
FailedToolStep(i) ==
    /\ i <= Len(results)
    /\ plan.steps[i].tool_call # None
    /\ Get(results[i], K("success"), JNull) = JBool("false")

\* C15: a tool step that fails does not abort the turn: no turn is in Error
\* after a tool was executed, the failure stays in the results list at the
\* position of its step, the later steps are executed and the turn ends in
\* Complete.
C15_FailedStepDoesNotAbort ==
    /\ [](phase = "error" => exec_calls = 0 /\ results = <<>>)
    /\ [][\A i \in 1..2 : FailedToolStep(i) => FailedToolStep(i)']_vars
    /\ (FailedToolStep(1) \/ FailedToolStep(2))
          ~> (/\ phase = "complete"
              /\ Len(results) = Len(plan.steps)
              /\ returned.execution_results = results)

\* C15 witness: the first of two tool steps failed, the second ran, and the
\* turn is complete
C15_Witness ==
    /\ phase = "complete"
    /\ FailedToolStep(1)
    /\ Len(results) = 2
    /\ plan.steps[2].tool_call # None
    /\ exec_calls = 2

\* C16: a turn that ends with a failure returns a dict with error and a
\* response that begins "I encountered an error: " and the message, without
\* plan and execution_results, and add_interaction was not called for it.
C16_ErrorOutcome ==
    phase = "error" =>
        /\ DOMAIN returned = {"response", "error", "timestamp"}
        /\ returned.error # <<>>
        /\ Len(returned.response) > 1 + Len(returned.error)
        /\ SubSeq(returned.response, 1, 1 + Len(returned.error))
              = <<"I encountered an error: ">> \o returned.error
        /\ added = <<>>
        /\ conversation_history = memory_file

\* C16 witness: get_context raised on a history it cannot summarize
C16_Witness ==
    /\ phase = "error"
    /\ returned.error = <<"no attribute 'get'">>
    /\ conversation_history # <<>>

\* The texts _query_ollama_fixed returns when the backend failed
GatewayFailures ==
    { <<"Ollama error: ", "No response">>, <<"Ollama error: ", "not found">>,
      <<"Ollama query timed out (30s limit)">>, <<"Error: ", "boom">> }

\* The plan query of the turn met a failure of the backend
PlanQueryFailed ==
    /\ models[S("primary")] = "ollama"
    /\ phase \notin {"idle", "planning"}
    /\ llm_response \in GatewayFailures

\* C17: a failure of the model gateway during the plan query ends the turn:
\* one query only, no step executed, the turn in Error with the text of the
\* failure, and nothing added to the memory.
C17_PlanQueryFailureEndsTurn ==
    PlanQueryFailed =>
        /\ phase = "error"
        /\ Len(queries) = 1
        /\ step_no = 0
        /\ added = <<>>

\* The turn of test_debug.py: the mock model, the default registry and the
\* request to list the files
ListFilesTurn ==
    /\ models[S("primary")] = "mock"
    /\ injected
    /\ tools = DefaultTools
    /\ user_input = <<"list files in current directory">>

ListParameters == JObj(<<K("operation"), K("path")>>, <<S("list"), S(".")>>)

\* C20: with the mock model and the default registry, the request to list
\* the files completes with a plan of one step, the filesystem call with
\* operation list and path ".", and one result, the successful result of
\* that call.
C20_ListFilesEndToEnd ==
    ListFilesTurn =>
        /\ phase = "error" => get_context(memory_file) # "none"
        /\ phase = "complete" =>
              /\ Len(returned.plan.steps) = 1
              /\ returned.plan.steps[1].tool_call # None
              /\ returned.plan.steps[1].tool_call[1].tool_name = S("filesystem")
              /\ returned.plan.steps[1].tool_call[1].parameters = ListParameters
              /\ Len(returned.execution_results) = 1
              /\ Get(returned.execution_results[1], K("success"), JNull) = JBool("true")
              /\ Get(returned.execution_results[1], K("tool"), JNull) = S("filesystem")
              /\ Get(returned.execution_results[1], K("output"), JNull)
                    = FileSystemTool_execute(ListParameters, InitialFs, Cwd).value
              /\ HasKey(Get(returned.execution_results[1], K("output"), JNull), K("files"))

\* C20 witness: the turn has completed with the listing
C20_Witness ==
    /\ ListFilesTurn
    /\ phase = "complete"
    /\ Len(returned.execution_results) = 1
    /\ HasKey(Get(returned.execution_results[1], K("output"), JNull), K("files"))

\* A turn with the mock model and the default registry whose request does
\* not hold the words of the list-files pattern
OtherRequestTurn ==
    /\ models[S("primary")] = "mock"
    /\ injected
    /\ tools = DefaultTools
    /\ user_input = <<"hi">>

\* C21: with the mock model and the default registry, a request that does
\* not match the list-files pattern is planned as one direct-response step
\* without a tool call, and no tool is executed during the turn.
C21_OtherRequestNoTool ==
    (OtherRequestTurn /\ InLoop) =>
        /\ Len(plan.steps) = 1
        /\ plan.steps[1].tool_call = None
        /\ exec_calls = 0
        /\ execution_history = <<>>

\* The place of a phase in the order of a turn
PhaseRank(p) ==
    CASE p = "idle" -> 0
      [] p = "planning" -> 1
      [] p = "executing" -> 2
      [] p = "synthesizing" -> 3
      [] p = "complete" -> 4
      [] OTHER -> 5

Terminal(p) == p \in {"complete", "error"}

\* The turn has ended
TurnEnded == Terminal(phase)

C30_CompleteRecordedOnce ==
    phase = "complete" =>
        added = <<[user_input |-> user_input, response |-> returned.response]>>

\* C30 as amended: with a memory injected, add_interaction is not called
\* before every step was executed and the response synthesized, and a turn
\* that ends in Complete has called it exactly once, with the user input
\* and the response it returns, and the history holds that interaction as
\* its last item; without a memory a turn completes with no call of
\* add_interaction.
C30_CompleteRecordedOnceWithMemory ==
    /\ phase # "complete" => added = <<>>
    /\ (phase = "complete" /\ ~injected) => added = <<>>
    /\ (phase = "complete" /\ injected) =>
          /\ step_no = Len(plan.steps)
          /\ Len(results) = Len(plan.steps)
          /\ returned.response = final_response
          /\ added = <<[user_input |-> user_input, response |-> returned.response]>>
          /\ conversation_history # <<>>
          /\ conversation_history[Len(conversation_history)]
                = Interaction(user_input, returned.response)

\* C30 witness: a turn with a memory has completed two steps and recorded
\* the interaction
C30_Witness ==
    /\ phase = "complete"
    /\ injected
    /\ Len(results) = 2
    /\ Len(added) = 1
    /\ added[1].response = returned.response
    /\ Len(conversation_history) = 1

\* The steps the loop has been at: those behind it, and the one a failure
\* ended the turn in
StepsRun ==
    IF phase = "error" /\ step_no < Len(plan.steps) THEN step_no + 1 ELSE step_no

\* The steps with a tool call and the steps without one among the first n
ToolStepsIn(n) == { k \in 1..n : plan.steps[k].tool_call # None }
ModelStepsIn(n) == { k \in 1..n : plan.steps[k].tool_call = None }

\* The query of the turn made for step k: the plan query is the first, and
\* each step without a tool call before k made one
QueryOfStep(k) == queries[1 + Cardinality(ModelStepsIn(k))]

\* C33 as stated: once the turn has its plan, each step with a tool call
\* the loop has been at has invoked the engine once and made no query, and
\* each step without one has made one query, with the prompt of the step
\* or with the user input when the step has none, and invoked no tool.
C33_OnePathPerStep ==
    plan # NoPlan =>
        /\ exec_calls = Cardinality(ToolStepsIn(StepsRun))
        /\ Len(queries) = 1 + Cardinality(ModelStepsIn(StepsRun))
        /\ \A k \in ModelStepsIn(StepsRun) :
              QueryOfStep(k).prompt =
                  IF plan.steps[k].prompt = JNull THEN JStr(user_input)
                  ELSE plan.steps[k].prompt

\* C33 as amended: once the turn has its plan, with an engine each step
\* with a tool call the loop has been at has invoked it once, and without
\* an engine none has; no step with a tool call has made a query; each step
\* without a tool call has made one query, to the model of the step, with
\* the prompt of the step or, when the step has no prompt or an empty one,
\* with the user input, and has invoked no tool.
C33_OnePathPerStepEngineAndPrompt ==
    plan # NoPlan =>
        /\ exec_calls = IF injected THEN Cardinality(ToolStepsIn(StepsRun)) ELSE 0
        /\ Len(results) = step_no
        /\ Len(queries) = 1 + Cardinality(ModelStepsIn(StepsRun))
        /\ \A k \in ModelStepsIn(StepsRun) :
              /\ QueryOfStep(k).model_key = S("primary")
              /\ QueryOfStep(k).prompt =
                    IF plan.steps[k].prompt \in {JNull, JStr(<<>>)} THEN JStr(user_input)
                    ELSE plan.steps[k].prompt

\* C33 witness: a turn has completed a plan whose first step has no prompt
\* and whose second has one, and another a step with a tool call and a
\* prompt
C33_Witness ==
    /\ phase = "complete"
    /\ injected
    /\ \/ /\ Len(plan.steps) = 2
          /\ ModelStepsIn(2) = {1, 2}
          /\ plan.steps[1].prompt = JNull
          /\ Len(queries) = 3
          /\ queries[2].prompt = JStr(user_input)
          /\ exec_calls = 0
       \/ /\ Len(plan.steps) = 1
          /\ plan.steps[1].tool_call # None
          /\ plan.steps[1].prompt # JNull
          /\ exec_calls = 1
          /\ Len(queries) = 1

----------------------------------------------------------------------------
(* Properties of AgentService.process_streaming                            *)

\* The first index from i on whose event is not of the type, Len + 1 when
\* there is none
RECURSIVE SkipType(_, _, _)
SkipType(es, i, type) ==
    IF i <= Len(es) /\ es[i].type = type THEN SkipType(es, i + 1, type) ELSE i

\* The index after the events of one step that start at i, 0 when they are
\* not the events of the step: tool_execution and tool_result for a step
\* with a tool call, chunks for one without
AfterStepEvents(es, i, step) ==
    IF step.tool_call # None
    THEN IF /\ i + 1 <= Len(es)
            /\ es[i].type = "tool_execution"
            /\ es[i + 1].type = "tool_result"
         THEN i + 2 ELSE 0
    ELSE SkipType(es, i, "chunk")

\* The index after the events of the steps k..n that start at i, 0 when the
\* events are not those of the steps in their order
RECURSIVE AfterSteps(_, _, _, _, _)
AfterSteps(es, i, k, n, steps) ==
    IF k > n THEN i
    ELSE IF /\ i <= Len(es)
            /\ es[i].type = "step_start"
            /\ es[i].step = k
            /\ es[i].total_steps = n
            /\ AfterStepEvents(es, i + 1, steps[k]) # 0
    THEN AfterSteps(es, AfterStepEvents(es, i + 1, steps[k]), k + 1, n, steps)
    ELSE 0

\* start, planning, planning_chunk*, plan_ready, the events of the steps
\* 1..N in their order, synthesizing, end
WellFormedFrom(es, p, steps) ==
    /\ p <= Len(es)
    /\ es[p].type = "plan_ready"
    /\ es[p].steps = Len(steps)
    /\ AfterSteps(es, p + 1, 1, Len(steps), steps) # 0
    /\ AfterSteps(es, p + 1, 1, Len(steps), steps) + 1 = Len(es)
    /\ es[Len(es) - 1].type = "synthesizing"
    /\ es[Len(es)].type = "end"

WellFormed(es) ==
    /\ Len(es) >= 5
    /\ es[1].type = "start"
    /\ es[2].type = "planning"
    /\ WellFormedFrom(es, SkipType(es, 3, "planning_chunk"), es[Len(es)].plan.steps)

\* The sequence was consumed to its end and no failure occurred
ConsumedWithoutFailure ==
    /\ stream_pc = "done"
    /\ events[Len(events)].type = "end"

\* C18: a sequence of process_streaming consumed to its end without a
\* failure is start, planning, planning_chunks, plan_ready, then for each
\* step of the plan in order a step_start numbered from 1 with the number of
\* steps plan_ready gave, followed by tool_execution and tool_result or by
\* chunks, then synthesizing and end.
C18_EventSequenceForm == ConsumedWithoutFailure => WellFormed(events)

\* C18 witness: a consumed sequence with two planning_chunks and two steps,
\* one with a tool call and one streamed in two chunks
C18_Witness ==
    /\ ConsumedWithoutFailure
    /\ events[3].type = "planning_chunk"
    /\ events[4].type = "planning_chunk"
    /\ Len(plan.steps) = 2
    /\ \E i \in 1..Len(events) : events[i].type = "tool_result"
    /\ \E i \in 2..Len(events) : events[i - 1].type = "chunk" /\ events[i].type = "chunk"

\* The event end has been produced
EndProduced == \E i \in 1..Len(events) : events[i].type = "end"

\* C19: the interaction is added to the memory exactly when the event end
\* is produced: whenever the consumer has stopped before end, add_interaction
\* was not called and the history is the one loaded; when end was produced,
\* add_interaction was called once, with the user input and the content of
\* end.
C19_RecordedIffEnd ==
    /\ ~EndProduced =>
          /\ added = <<>>
          /\ conversation_history = memory_file
    /\ EndProduced =>
          /\ added = <<[user_input |-> user_input,
                        response |-> events[Len(events)].content]>>
          /\ Len(conversation_history) > 0
          /\ conversation_history[Len(conversation_history)]
                = Interaction(user_input, events[Len(events)].content)

\* C19 witness: the consumer stopped at synthesizing, the last event before
\* end, and nothing was added
C19_Witness ==
    /\ stream_pc = "closed"
    /\ events # <<>>
    /\ events[Len(events)].type = "synthesizing"
    /\ results # <<>>
    /\ added = <<>>

\* The sequence was consumed to its end
FullyConsumed == stream_pc = "done"

\* The indices of the terminal events of the sequence
TerminalEvents == { i \in 1..Len(events) : events[i].type \in {"end", "error"} }

\* The texts a failed backend of a model query comes back as
BackendFailures ==
    GatewayFailures
    \cup { ClientError("openai"), ClientError("anthropic"),
           LibraryMissing("openai"), LibraryMissing("anthropic") }

\* A query of the turn met a failure of its backend, or the turn ended with
\* the event error
FailureOccurred ==
    \/ \E i \in 1..Len(events) :
          /\ events[i].type \in {"planning_chunk", "chunk"}
          /\ events[i].content \in BackendFailures
    \/ \E i \in 1..Len(events) : events[i].type = "error"

\* C31: a fully consumed sequence has exactly one terminal event, end or
\* error, and it is its last event; when a failure occurred in the turn the
\* sequence ends with error and the message of the failure, no end was
\* yielded and nothing was added to the memory.
C31_OneTerminalEvent ==
    FullyConsumed =>
        /\ TerminalEvents = {Len(events)}
        /\ FailureOccurred =>
              /\ events[Len(events)].type = "error"
              /\ events[Len(events)].error # <<>>
              /\ events[Len(events)].content = <<"Error: ">> \o events[Len(events)].error
              /\ added = <<>>
              /\ conversation_history = memory_file

\* The contents of the events of the type among es[i..j], joined in order
RECURSIVE JoinContents(_, _, _, _)
JoinContents(es, type, i, j) ==
    IF i > j THEN <<>>
    ELSE (IF es[i].type = type THEN es[i].content ELSE <<>>)
         \o JoinContents(es, type, i + 1, j)

\* The index of the step_start of step k
StepStartAt(k) ==
    CHOOSE i \in 1..Len(events) : events[i].type = "step_start" /\ events[i].step = k

\* The first index from i on of a step_start or of synthesizing, Len + 1
\* when there is none
RECURSIVE NextStepOrSynthesis(_, _)
NextStepOrSynthesis(es, i) ==
    IF i > Len(es) \/ es[i].type \in {"step_start", "synthesizing"} THEN i
    ELSE NextStepOrSynthesis(es, i + 1)

\* The chunks yielded for step k, joined
ChunksOfStep(k) ==
    JoinContents(events, "chunk", StepStartAt(k) + 1,
                 NextStepOrSynthesis(events, StepStartAt(k) + 1) - 1)

\* _parse_execution_plan was called in the turn
ParserCalled == raised \/ \E i \in 1..Len(events) : events[i].type = "plan_ready"

\* C32: the text handed to _parse_execution_plan is the contents of the
\* planning_chunk events joined in their order, and the response recorded
\* for a step without a tool call is the contents of the chunk events
\* between its step_start and the next step_start or synthesizing, joined
\* in their order.
C32_ChunksConcatenated ==
    /\ ParserCalled =>
          llm_response = JoinContents(events, "planning_chunk", 1, Len(events))
    /\ \A k \in 1..Len(results) :
          ~requires_tool(plan.steps[k]) =>
              results[k] = ResponseResult(ChunksOfStep(k))

\* C32 witness: the plan came in two planning_chunks and a step without a
\* tool call was answered in two chunks, and both were joined
C32_Witness ==
    /\ stream_pc = "done"
    /\ Cardinality({ i \in 1..Len(events) : events[i].type = "planning_chunk" }) = 2
    /\ llm_response # <<>>
    /\ \E k \in 1..Len(results) :
          /\ ~requires_tool(plan.steps[k])
          /\ \E i \in 2..Len(events) :
                /\ events[i - 1].type = "chunk"
                /\ events[i].type = "chunk"
                /\ results[k].items[1].s = events[i - 1].content \o events[i].content

----------------------------------------------------------------------------
(* Properties of a turn, by process or by process_streaming                *)

\* The text of the branch without results
NoResultsText == <<"I understand your request. How can I help you further?">>

\* C36: a parsed plan has at least one step, so the results list is not
\* empty when the synthesis is reached: neither process nor
\* process_streaming gives the text of the branch without results, and in
\* a sequence of process_streaming the event before end is synthesizing.
C36_SynthesisHasResults ==
    /\ (plan # NoPlan \/ phase \in {"executing", "synthesizing", "complete"}) =>
          Len(plan.steps) >= 1
    /\ phase \in {"synthesizing", "complete"} =>
          /\ results # <<>>
          /\ final_response # NoResultsText
    /\ phase = "complete" => returned.response # NoResultsText
    /\ \A i \in 1..Len(events) :
          events[i].type = "end" =>
              /\ i > 1
              /\ events[i - 1].type = "synthesizing"
              /\ events[i].results # <<>>
              /\ events[i].content # NoResultsText
              /\ added[1].response # NoResultsText

\* C36 witness: the model gave no JSON, the fallback plan gave the one
\* step, and the sequence ended with synthesizing and end
C36_Witness ==
    /\ stream_pc = "done"
    /\ llm_response = <<"hello">>
    /\ Len(plan.steps) = 1
    /\ Len(results) = 1
    /\ events[Len(events) - 1].type = "synthesizing"
    /\ events[Len(events)].type = "end"

----------------------------------------------------------------------------
(* Properties of PythonExecutorTool.execute                                *)

\* The code of the call has been running for longer than the timeout of
\* the call
PastTimeout == py_elapsed > RequestedTimeout(py_kwargs)

\* C23: the execution of the code is bounded by the timeout of the call
\* (10 seconds when none is given): no code is still running after it, and
\* a call whose code ran for longer has returned an error value.
C23_PythonExecutorTimeBounded ==
    /\ py_pc = "running" => ~PastTimeout
    /\ (py_pc = "returned" /\ PastTimeout) =>
          /\ ~py_value.raised
          /\ HasKey(py_value.value, K("error"))
          /\ py_run.ends = "never"

----------------------------------------------------------------------------
(* Properties of ToolRegistry.register_tool                                *)

\* The names of the schemas of the tools registered so far
NamesRegistered == { register_calls[i].name : i \in 1..Len(register_calls) }

\* The last call of register_tool with a tool of this name
LastCallFor(name) ==
    CHOOSE i \in 1..Len(register_calls) :
        /\ register_calls[i].name = name
        /\ \A j \in (i + 1)..Len(register_calls) : register_calls[j].name # name

\* The tool of the last call of register_tool
LastRegistered == register_calls[Len(register_calls)]

\* C24: after any sequence of register_tool calls the registry has one
\* entry for each schema name registered, each key is the schema name of the
\* tool under it, the tool under a name is the one registered last with that
\* name, and a registration leaves the tools under the other names as they
\* were.
C24_LastRegistrationWins ==
    /\ [](/\ DOMAIN tools_dict = NamesRegistered
          /\ \A n \in DOMAIN tools_dict :
                /\ tools_dict[n].name = n
                /\ tools_dict[n] = register_calls[LastCallFor(n)])
    /\ [][\A n \in DOMAIN tools_dict :
             n # LastRegistered'.name => tools_dict'[n] = tools_dict[n]]_vars

\* C24 witness: a name registered by __init__ was registered again twice,
\* with two other objects, and the registry holds the last of them
C24_Witness ==
    /\ Len(register_calls) = Len(DefaultRegistered) + 2
    /\ register_calls[5] = Tool(S("shell"), 1)
    /\ register_calls[6] = Tool(S("shell"), 2)
    /\ tools_dict[S("shell")] = Tool(S("shell"), 2)
    /\ tools_dict[S("filesystem")] = Tool(S("filesystem"), 0)

----------------------------------------------------------------------------
(* Properties of ToolRegistry.execute_tool                                 *)

\* The required parameters of the schema that the last call does not give
AbsentRequired ==
    { k \in SchemaParams(et_call.tool_name) :
        /\ \E i \in 1..Len(RequiredParams(et_call.tool_name.s[1])) :
              RequiredParams(et_call.tool_name.s[1])[i] = k
        /\ ~HasKey(et_call.parameters, k) }

\* The name of a parameter between quotes, as str(KeyError) gives it
Quoted(name) ==
    CASE name = "code" -> "'code'"
      [] name = "query" -> "'query'"
      [] OTHER -> name

\* The value is an error dict whose message names an absent required
\* parameter
ReportsAbsent(value) ==
    /\ value.t = "obj"
    /\ value.keys = <<K("error")>>
    /\ \E k \in AbsentRequired :
          \E i \in 1..Len(value.items[1].s) :
              value.items[1].s[i] \in {k[1], Quoted(k[1])}

\* The parameters of the call that the schema of the tool names
RECURSIVE SchemaOnly(_, _, _)
SchemaOnly(kwargs, names, i) ==
    IF i > Len(kwargs.keys) THEN JObj(<<>>, <<>>)
    ELSE IF kwargs.keys[i] \in names
    THEN JObj(<<kwargs.keys[i]>> \o SchemaOnly(kwargs, names, i + 1).keys,
              <<kwargs.items[i]>> \o SchemaOnly(kwargs, names, i + 1).items)
    ELSE SchemaOnly(kwargs, names, i + 1)

\* C25: a call of a default tool through execute_tool that lacks a required
\* parameter returns an error value that reports the missing parameter and
\* does nothing else: no file system access, no subprocess, no code
\* executed, no request sent; and the parameters the schema does not name
\* make no difference to what a call does and returns.
C25_MissingParameterNoEffect ==
    et_call # None =>
        /\ AbsentRequired # {} =>
              /\ ~et_outcome.raised
              /\ ReportsAbsent(et_outcome.value)
              /\ Effects(tools, et_call.tool_name, et_call.parameters, et_call.outcome) = {}
              /\ et_outcome.fs = et_before
              /\ et_outcome.started = <<>>
        /\ et_outcome =
              execute_tool(tools, et_call.tool_name,
                           SchemaOnly(et_call.parameters,
                                      SchemaParams(et_call.tool_name), 1),
                           et_before, et_call.outcome)

----------------------------------------------------------------------------
(* Properties of LLMOrchestrator.arena_consensus                           *)

\* The keys arena_consensus queried, in order
ArenaKeys == [i \in 1..Len(arena_queries) |-> arena_queries[i].model_key]

\* The models available to the call: those of the list it was given, else
\* the models of the registry besides the primary alias and the mock model
Available ==
    IF arena_models # <<>> THEN { arena_models[i] : i \in 1..Len(arena_models) }
    ELSE { k \in DOMAIN models : k \notin {S("primary"), S("mock:test")} }

\* The value begins with the header for n models
UnderHeader(n) ==
    /\ Len(arena_value) >= 4
    /\ SubSeq(arena_value, 1, 4) = <<"Consensus from ", IntStr(n).s[1], " models:", NL>>

\* The single query to the primary model, its response returned as it is
Degraded ==
    /\ ArenaKeys = <<S("primary")>>
    /\ arena_value = arena_queries[1].response

\* C26: arena_consensus queries at most 3 models, none by the key
\* "primary", however it is called, and returns their responses under the
\* header "Consensus from N models:"; with fewer than 2 models available it
\* makes one query, to the primary model, and returns that response as it
\* is.
C26_ArenaAtMostThreeNonPrimary ==
    arena_pc = "returned" =>
        IF Cardinality(Available) < 2 THEN Degraded
        ELSE /\ Len(arena_queries) \in 2..3
             /\ \A i \in 1..Len(ArenaKeys) : ArenaKeys[i] # S("primary")
             /\ UnderHeader(Len(arena_queries))

----------------------------------------------------------------------------
(* Properties of LLMOrchestrator._synthesize_response                      *)

\* The texts joined by newlines
RECURSIVE JoinedByNewline(_, _)
JoinedByNewline(texts, i) ==
    IF i > Len(texts) THEN <<>>
    ELSE texts[i] \o (IF i < Len(texts) THEN <<NL>> ELSE <<>>)
         \o JoinedByNewline(texts, i + 1)

\* "Step N: " and the JSON text of a value
StepLine(n, v) == <<"Step ", IntStr(n).s[1], ": ">> \o Dumps(v)

\* The rendering of the n-th entry as stated: its response, "Step N: " and
\* its output, or its raw string form
RenderedAsStated(entry, n) ==
    IF HasKey(entry, K("response")) THEN Get(entry, K("response"), JNull).s
    ELSE IF HasKey(entry, K("output")) THEN StepLine(n, Get(entry, K("output"), JNull))
    ELSE PyStr(entry)

\* The rendering of the n-th entry: a dict without response and output is
\* "Step N: " and the JSON text of the dict itself; the raw string form is
\* that of an entry that is no dict
Rendered(entry, n) ==
    IF HasKey(entry, K("response")) THEN Get(entry, K("response"), JNull).s
    ELSE IF HasKey(entry, K("output")) THEN StepLine(n, Get(entry, K("output"), JNull))
    ELSE IF entry.t = "obj" THEN StepLine(n, entry)
    ELSE PyStr(entry)

\* The only entry has a response
SingleResponse ==
    Len(syn_results) = 1 /\ HasKey(syn_results[1], K("response"))

\* C34 as stated: for two or more entries _synthesize_response returns the
\* renderings of the entries joined by newlines in the order of the list,
\* an entry with a response rendered as that text, one with an output as
\* "Step N: " and the output, N its position counted from 1, and any other
\* entry as its raw string form; for one entry with a response it returns
\* that text.
C34_SynthesisRendering ==
    syn_pc = "returned" =>
        /\ Len(syn_results) >= 2 =>
              syn_value = JoinedByNewline([n \in 1..Len(syn_results) |->
                                              RenderedAsStated(syn_results[n], n)], 1)
        /\ SingleResponse => syn_value = Get(syn_results[1], K("response"), JNull).s

\* C34 as amended: the same, but an entry that is a dict without response
\* and output is rendered as "Step N: " and the JSON text of the dict; the
\* raw string form is the rendering of an entry that is no dict.
C34_SynthesisRenderingOtherDicts ==
    syn_pc = "returned" =>
        /\ Len(syn_results) >= 2 =>
              syn_value = JoinedByNewline([n \in 1..Len(syn_results) |->
                                              Rendered(syn_results[n], n)], 1)
        /\ SingleResponse => syn_value = Get(syn_results[1], K("response"), JNull).s

\* C34 witness: a list of an output and a failure was rendered with the
\* numbers 1 and 2, and a list of a response and an entry that is no dict
\* exists as well
C34_Witness ==
    /\ syn_pc = "returned"
    /\ Len(syn_results) = 2
    /\ HasKey(syn_results[1], K("output"))
    /\ HasKey(syn_results[2], K("error"))
    /\ syn_value[1] = "Step "
    /\ syn_value[2] = "1"
    /\ \E i \in 1..Len(syn_value) : syn_value[i] = NL /\ syn_value[i + 2] = "2"

----------------------------------------------------------------------------
(* Properties of VIBE1337Agent.process in streaming mode                   *)

\* The indices of the events of the given type
EventsOfType(type) == { i \in 1..Len(events) : events[i].type = type }

\* The stream terminated with the event error
EndedWithError == events # <<>> /\ events[Len(events)].type = "error"

\* The tokens of the error message of the last event
ErrorTokens ==
    { events[Len(events)].content[i] : i \in 1..Len(events[Len(events)].content) }

\* The value is {response: text of the chunks} and nothing of the error
TextOfChunksOnly ==
    /\ DOMAIN agent_value = {"response"}
    /\ agent_value.response = JoinContents(events, "chunk", 1, Len(events))
    /\ \A i \in 1..Len(agent_value.response) : agent_value.response[i] \notin ErrorTokens

\* C39: process in streaming mode returns the event end whenever the stream
\* produced one; when the stream terminated with the event error, it returns
\* {response: the concatenation of the contents of the chunks received},
\* with no error field and nothing of the error message.
C39_EndOrChunksReturned ==
    agent_pc = "returned" =>
        /\ \A i \in EventsOfType("end") : agent_value = events[i]
        /\ EndedWithError => TextOfChunksOnly

\* C39: a stream that yielded planning chunks and a chunk of a step, and
\* then the event error, has been consumed and process has returned.
C39_Witness ==
    /\ agent_pc = "returned"
    /\ EndedWithError
    /\ EventsOfType("chunk") # {}
    /\ EventsOfType("planning_chunk") # {}
    /\ agent_value.response # <<>>

----------------------------------------------------------------------------
(* Properties of process and process_streaming on the same input           *)

\* Both turns have ended
BothEnded == first # None /\ stream_pc = "done"

\* The event end carries what process returned
EndAsReturned(event) ==
    /\ event.content = returned.response
    /\ event.plan = returned.plan
    /\ event.results = returned.execution_results

\* The same tool calls in the same order, with the same effects
SameToolCalls ==
    /\ exec_calls = first.calls
    /\ exec_call = first.last_call
    /\ execution_history = first.history
    /\ disk = first.disk
    /\ sh_started = first.started

\* The Context Store received the same interactions
SameInteractions ==
    /\ added = first.added
    /\ conversation_history = first.store
    /\ memory_file = first.file

\* C38: with a model gateway that answers the same (model key, prompt) with
\* the same text and a provider _query_llm_streaming does not stream from,
\* process_streaming and process are equivalent on the same input and
\* initial state: there is an event end exactly when process completed, its
\* content, plan and results are the response, plan and execution_results
\* process returned, the same tool calls were executed in the same order,
\* the same queries went to the gateway, and the Context Store received the
\* same single interaction.
C38_StreamingAsProcess ==
    BothEnded =>
        /\ (phase = "complete") = (EventsOfType("end") # {})
        /\ \A i \in EventsOfType("end") :
              EndAsReturned(events[i]) /\ Len(added) = 1
        /\ SameToolCalls
        /\ SameInteractions
        /\ queries = first.queries

\* C38: both turns ended with a result, each after the plan query, a tool
\* call and the query of a step, and with its interaction in the store.
C38_Witness ==
    /\ BothEnded
    /\ phase = "complete"
    /\ EventsOfType("end") # {}
    /\ exec_calls = 1
    /\ first.calls = 1
    /\ Len(queries) = 2
    /\ EventsOfType("chunk") # {}
    /\ Len(added) = 1

====
